---- MODULE Spec2Model ----
(***************************************************************************)
(* libbyreads-rs: the catalog aggregation (get_goodreads_books), the       *)
(* per-book library probe (get_libby_availability) and the bounded probe   *)
(* sweep (fetch_availability / fetch_concurrent) of src/src/app.rs.        *)
(*                                                                         *)
(* The specifications share the variables; each one holds the variables    *)
(* of the other components at their initial values:                        *)
(*   CatalogSpec    one call of get_goodreads_books against one shelf      *)
(*   PaginationSpec the first fetch of a shelf with any pagination links   *)
(*   ProbeSpec      one call of get_libby_availability for one book        *)
(*   SweepSpec      one probe sweep started by fetch_availability          *)
(*   FairSweepSpec  the same sweep with every probe eventually completing  *)
(*   LabelSpec      a sweep at two libraries and the labels of the table   *)
(*   SelectionSpec  one probe sweep while libraries are added and removed  *)
(*   ResweepSpec    probe sweeps started while earlier ones are running    *)
(*   BannerSpec     fetch_books and the private-profile banner             *)
(*   ScrapeSpec     the title of one shelf row                             *)
(*   CompareSpec    the match rule on one item of a response               *)
(*   ScanSpec       the items loop on the items array of one response      *)
(* Spec is the union of CatalogSpec, ProbeSpec and SweepSpec.              *)
(***************************************************************************)
EXTENDS Integers, Sequences, FiniteSets, TLC

\* ------------------------------------------------------------------ bounds
\* Largest number of shelf pages, and of book rows on one page.
MaxPages == 2
MaxRows == 2
\* Largest number of libraries of one probe, and of items in one API response.
MaxLibs == 2
MaxItems == 2
\* Largest number of books, and of selected libraries, of one probe sweep.
MaxBooks == 6
MaxSweepLibs == 1
\* Library selection: largest number of libraries the search offers, and of
\* library fetches pending when a library is added.
MaxPageLibs == 1
MaxLibTasks == 1
\* Repeated sweeps: largest number of books of the table, and of earlier
\* sweeps a click leaves running.
MaxResweepBooks == 2
MaxStale == 1
\* Largest number of items of a response whose items array is given in full.
MaxScanItems == 3
\* Largest number of pagination links of a first page whose links are arbitrary.
MaxLinks == 3
\* Largest number of books, and the number of libraries, of a sweep whose
\* verdicts are compared with the labels of the table.
MaxLabelBooks == 2
LabelLibs == 2
\* Largest number of child nodes of the title anchor of a shelf row.
MaxNodes == 3
\* Largest user id typed, and largest number of fetch_books tasks not yet answered.
MaxUsers == 2
MaxFetches == 2

\* `let concurrency_limit = 5;`
concurrency_limit == 5

VARIABLES
    \* --- catalog aggregation (get_goodreads_books)
    shelf,          \* the upstream shelf: pages, their rows, privacy marker, pagination links
    cat_pc,         \* position of get_goodreads_books
    last_page,      \* the page count read from the first page
    page_number,    \* loop variable of the spawn loop
    awaiting,       \* index of the task the await loop is waiting for
    tasks,          \* the spawned page tasks
    books,          \* the shared Arc<Mutex<Vec<GoodreadsBook>>>
    lock,           \* holder of the mutex: 0 (free) or the page of the task holding it
    requests,       \* number of GET requests issued per shelf page
    cat_result,     \* what get_goodreads_books returned
    \* --- one probe (get_libby_availability)
    probe_book,     \* the GoodreadsBook argument
    probe_libs,     \* the libraries argument
    probe_pc,       \* position of get_libby_availability
    lib_idx,        \* index of the library the loop is at
    item_idx,       \* number of items of the current response already passed over
    libby_library_books, \* the per-library results collected so far
    queried,        \* the libraries a request was sent to, in order
    probe_result,   \* what get_libby_availability returned
    \* --- probe sweep (fetch_availability)
    sweep_books,    \* the `books` signal: the catalog books of the table
    selected_libraries, \* the `selected_libraries` signal
    lending,        \* the upstream: what probing each book yields
    sweep_pc,       \* position of the sweep
    book_iter,      \* index of the next book `book_iter.next()` yields
    in_flight,      \* the FuturesUnordered: the per-book probes not yet completed
    libby_progress, \* signal: completed probes
    available_count, \* signal
    holdable_count, \* signal
    not_owned_count, \* signal
    availability,   \* signal: the verdicts received so far
    \* --- HomePage
    selected_library_website_ids, \* signal: the website ids the user selected
    lib_tasks,      \* the spawned library fetches: per task the ids still to fetch
    effect_tracks_libraries, \* whether the selection effect last read selected_libraries
    stale,          \* the fetch_concurrent futures of earlier sweeps still running
    user_id,        \* signal: the Goodreads user id typed or taken from the URL
    book_fetches,   \* the fetch_books tasks spawned and not yet answered, oldest first
    fetch_result,   \* what get_goodreads_books returned to the last task answered
    is_private_profile, \* signal: whether the private-profile banner is shown
    \* --- single steps of the row loop and of the items loop
    title_element,  \* the child nodes of the title anchor of a shelf row
    scraped_title,  \* << >>, or <<t>> with t the title the row loop built from them
    match_item,     \* << >>, or <<item>> with an item of a lending-API response
    match_result,   \* whether the items loop accepts it for probe_book
    items           \* the items array of the response the items loop iterates

cat_vars == <<shelf, cat_pc, last_page, page_number, awaiting, tasks, books, lock,
              requests, cat_result>>

probe_vars == <<probe_book, probe_libs, probe_pc, lib_idx, item_idx,
                libby_library_books, queried, probe_result>>

sweep_vars == <<sweep_books, selected_libraries, lending, sweep_pc, book_iter,
                in_flight, libby_progress, available_count, holdable_count,
                not_owned_count, availability>>

page_vars == <<selected_library_website_ids, lib_tasks, effect_tracks_libraries, stale>>

banner_vars == <<user_id, book_fetches, fetch_result, is_private_profile>>

step_vars == <<title_element, scraped_title, match_item, match_result, items>>

vars == <<cat_vars, probe_vars, sweep_vars, page_vars, banner_vars, step_vars>>

\* ------------------------------------------------------------------ text
\* A string is a sequence of one-character strings.
Digits == <<"0", "1", "2", "3", "4", "5", "6", "7", "8", "9">>

IsDigit(c) == \E d \in 1..10 : Digits[d] = c

DigitVal(c) == (CHOOSE d \in 1..10 : Digits[d] = c) - 1

RECURSIVE DigitsValue(_, _)
\* Value of a digit string, most significant digit first.
DigitsValue(s, acc) ==
    IF s = << >> THEN acc ELSE DigitsValue(Tail(s), acc * 10 + DigitVal(Head(s)))

\* str::parse::<u32>(): an optional leading '+', then one or more digits, no
\* whitespace. -1 stands for Err. Link texts of more than MaxDigits digits
\* are not drawn by the model; those beyond u32 are Err in the code.
MaxDigits == 9

ParseU32(s) ==
    LET body == IF s # << >> /\ Head(s) = "+" THEN Tail(s) ELSE s
    IN IF \/ body = << >>
          \/ Len(body) > MaxDigits
          \/ \E i \in 1..Len(body) : ~IsDigit(body[i])
       THEN -1
       ELSE DigitsValue(body, 0)

RECURSIVE MaxParsed(_)
\* .filter_map(parse::<u32>().ok()).max(): None is -1.
MaxParsed(links) ==
    IF links = << >> THEN -1
    ELSE LET rest == MaxParsed(Tail(links))
             v == ParseU32(Head(links))
         IN IF v > rest THEN v ELSE rest

RECURSIVE LastParsed(_)
\* The value of the last link that parses: None is -1.
LastParsed(links) ==
    IF links = << >> THEN -1
    ELSE IF ParseU32(links[Len(links)]) # -1 THEN ParseU32(links[Len(links)])
    ELSE LastParsed(SubSeq(links, 1, Len(links) - 1))

\* LastPage reading the page count off the last numbered link.
LastPageOfLastNumber(links) ==
    IF LastParsed(links) = -1 THEN 1 ELSE LastParsed(links)

\* The page count: the highest pagination link, or 1 without any.
LastPage(links) ==
    IF MaxParsed(links) = -1 THEN 1 ELSE MaxParsed(links)

Upper == <<"A", "B", "C", "D", "E", "F", "G", "H", "I", "J", "K", "L", "M",
           "N", "O", "P", "Q", "R", "S", "T", "U", "V", "W", "X", "Y", "Z">>
Lower == <<"a", "b", "c", "d", "e", "f", "g", "h", "i", "j", "k", "l", "m",
           "n", "o", "p", "q", "r", "s", "t", "u", "v", "w", "x", "y", "z">>

LowerChar(c) ==
    IF \E i \in 1..26 : Upper[i] = c
    THEN Lower[CHOOSE i \in 1..26 : Upper[i] = c]
    ELSE c

\* str::to_lowercase() on the modelled (ASCII) characters.
ToLowercase(s) == [i \in 1..Len(s) |-> LowerChar(s[i])]

\* str::starts_with()
StartsWith(s, prefix) ==
    Len(prefix) <= Len(s) /\ SubSeq(s, 1, Len(prefix)) = prefix

IsSpace(c) == c \in {" ", "\n", "\t"}

RECURSIVE TrimStart(_)
TrimStart(s) ==
    IF s # << >> /\ IsSpace(Head(s)) THEN TrimStart(Tail(s)) ELSE s

RECURSIVE TrimEnd(_)
TrimEnd(s) ==
    IF s # << >> /\ IsSpace(s[Len(s)]) THEN TrimEnd(SubSeq(s, 1, Len(s) - 1)) ELSE s

\* str::trim()
Trim(s) == TrimEnd(TrimStart(s))

IsNotNewline(c) == c # "\n"

\* str::replace("\n", "")
RemoveNewlines(s) == SelectSeq(s, IsNotNewline)

\* urlencoding::encode(): letters, digits and - _ . ~ are kept, every other
\* character becomes % and the two hex digits of its byte.
Letters == { Upper[i] : i \in 1..26 } \cup { Lower[i] : i \in 1..26 }

Unreserved(c) ==
    \/ c \in Letters
    \/ IsDigit(c)
    \/ c \in {"-", "_", ".", "~"}

PercentCode(c) ==
    CASE c = " " -> <<"%", "2", "0">>
      [] c = "\n" -> <<"%", "0", "A">>
      [] c = "\t" -> <<"%", "0", "9">>
      [] c = "%" -> <<"%", "2", "5">>
      [] c = "+" -> <<"%", "2", "B">>
      [] c = "," -> <<"%", "2", "C">>
      [] c = ":" -> <<"%", "3", "A">>
      [] c = "#" -> <<"%", "2", "3">>
      [] c = "(" -> <<"%", "2", "8">>
      [] c = ")" -> <<"%", "2", "9">>

RECURSIVE Encode(_)
Encode(s) ==
    IF s = << >> THEN << >>
    ELSE (IF Unreserved(Head(s)) THEN <<Head(s)>> ELSE PercentCode(Head(s)))
         \o Encode(Tail(s))

\* ------------------------------------------------------------------ shelf
\* A row element that the selector does not find.
Missing == << >>

RowKinds == {"ok", "no_cover", "no_title", "no_author"}

\* Row i of page p: what the three selectors find in it.
Row(p, i, kind) ==
    [cover  |-> IF kind = "no_cover" THEN Missing ELSE <<"cover", p, i>>,
     title  |-> IF kind = "no_title" THEN Missing ELSE <<"title", p, i>>,
     author |-> IF kind = "no_author" THEN Missing ELSE <<"author", p, i>>]

WellFormed(row) ==
    row.cover # Missing /\ row.title # Missing /\ row.author # Missing

\* The pagination links of page 1 of a shelf of n pages: the other pages'
\* numbers and a "next" link (the current page is not a link).
NextLink == <<"n", "e", "x", "t">>

PaginationLinks(n) ==
    IF n = 1 THEN << >>
    ELSE [i \in 1..n |-> IF i < n THEN <<Digits[i + 2]>> ELSE NextLink]

\* Shelves of 1..MaxPages pages of 0..MaxRows rows, at most one row of the
\* shelf malformed, the privacy marker on no page, on one page or on all.
PageRows(p, n, bad, kind) ==
    [i \in 1..n |-> Row(p, i, IF bad = <<p, i>> THEN kind ELSE "ok")]

ShelvesOf(n) ==
    { [npages |-> n,
       rows   |-> [p \in 1..n |-> PageRows(p, len[p], bad, kind)],
       marker |-> m,
       links  |-> PaginationLinks(n)] :
        len \in [1..n -> 0..MaxRows],
        bad \in {<<0, 0>>} \cup ((1..n) \X (1..MaxRows)),
        kind \in RowKinds \ {"ok"},
        m \in {{}, {1}, {n}, 1..n} }

Shelves == UNION { ShelvesOf(n) : n \in 1..MaxPages }

\* ------------------------------------------------------------------ results
Pending == [tag |-> "pending", books |-> << >>, msg |-> ""]
Ok(bs) == [tag |-> "ok", books |-> bs, msg |-> ""]
Err(m) == [tag |-> "err", books |-> << >>, msg |-> m]

\* ------------------------------------------------------------------ catalog
NoTask == [pc |-> "unspawned", row |-> 0, got_page |-> FALSE]

CatalogInit ==
    /\ shelf \in Shelves
    /\ cat_pc = "first_fetch"
    /\ last_page = 0
    /\ page_number = 0
    /\ awaiting = 0
    /\ tasks = [p \in 1..MaxPages |-> NoTask]
    /\ books = << >>
    /\ lock = 0
    /\ requests = [p \in 1..MaxPages |-> 0]
    /\ cat_result = Pending

\* The rows the page task finds on page p; a page past the end of the shelf
\* has none.
RowsOf(p) == IF p \in 1..shelf.npages THEN shelf.rows[p] ELSE << >>

\* The GoodreadsBook built from a well-formed row.
BookOf(row) == [cover |-> row.cover, title |-> row.title, author |-> row.author]

\* FirstFetch without the check for the private-profile marker.
FirstFetchUnchecked ==
    /\ cat_pc = "first_fetch"
    /\ requests' = [requests EXCEPT ![1] = @ + 1]
    /\ \E sent \in BOOLEAN :
        IF ~sent
        THEN /\ cat_result' = Err("request failed")
             /\ cat_pc' = "returned"
             /\ UNCHANGED <<last_page, page_number>>
        ELSE /\ last_page' = LastPage(shelf.links)
             /\ page_number' = 1
             /\ cat_pc' = "spawn"
             /\ cat_result' = cat_result
    /\ UNCHANGED <<shelf, awaiting, tasks, books, lock, probe_vars, sweep_vars, page_vars, banner_vars, step_vars>>

\* The synchronous fetch of the first page: a failed request returns the error,
\* a private-profile marker returns "Private profile", otherwise the page count
\* is read and the spawn loop starts.
FirstFetch ==
    /\ cat_pc = "first_fetch"
    /\ requests' = [requests EXCEPT ![1] = @ + 1]
    /\ \E sent \in BOOLEAN :
        IF ~sent
        THEN /\ cat_result' = Err("request failed")
             /\ cat_pc' = "returned"
             /\ UNCHANGED <<last_page, page_number>>
        ELSE IF 1 \in shelf.marker
        THEN /\ cat_result' = Err("Private profile")
             /\ cat_pc' = "returned"
             /\ UNCHANGED <<last_page, page_number>>
        ELSE /\ last_page' = LastPage(shelf.links)
             /\ page_number' = 1
             /\ IF LastPage(shelf.links) >= 1
                THEN cat_pc' = "spawn" /\ cat_result' = cat_result
                ELSE cat_pc' = "returned" /\ cat_result' = Ok(books)
    /\ UNCHANGED <<shelf, awaiting, tasks, books, lock, probe_vars, sweep_vars, page_vars, banner_vars, step_vars>>

\* One iteration of `for page_number in 1..=last_page`: spawn the page task.
SpawnTask ==
    /\ cat_pc = "spawn"
    /\ tasks' = [tasks EXCEPT ![page_number].pc = "fetch"]
    /\ IF page_number = last_page
       THEN cat_pc' = "await" /\ awaiting' = 1 /\ page_number' = page_number
       ELSE cat_pc' = cat_pc /\ awaiting' = awaiting /\ page_number' = page_number + 1
    /\ UNCHANGED <<shelf, last_page, books, lock, requests, cat_result, probe_vars, sweep_vars, page_vars, banner_vars, step_vars>>

\* A page task's GET: on a failed request or body the task ends without books.
TaskFetch(p) ==
    /\ tasks[p].pc = "fetch"
    /\ requests' = [requests EXCEPT ![p] = @ + 1]
    /\ \E got \in BOOLEAN :
        tasks' = [tasks EXCEPT ![p] =
                    IF got /\ RowsOf(p) # << >>
                    THEN [pc |-> "row", row |-> 1, got_page |-> TRUE]
                    ELSE [pc |-> "finished", row |-> 0, got_page |-> got]]
    /\ UNCHANGED <<shelf, cat_pc, last_page, page_number, awaiting, books, lock, cat_result,
                   probe_vars, sweep_vars, page_vars, banner_vars, step_vars>>

\* TaskRow going on to the push without waiting for the lock.
TaskRowWithoutLock(p) ==
    /\ tasks[p].pc = "row"
    /\ IF ~WellFormed(RowsOf(p)[tasks[p].row])
       THEN /\ tasks' = [tasks EXCEPT ![p].pc = "panicked"]
            /\ lock' = lock
       ELSE /\ lock' = p
            /\ tasks' = [tasks EXCEPT ![p].pc = "locked"]
    /\ UNCHANGED <<shelf, cat_pc, last_page, page_number, awaiting, books, requests,
                   cat_result, probe_vars, sweep_vars, page_vars, banner_vars, step_vars>>

\* A page task selects the elements of its next row: a missing element makes
\* the unwrap panic and ends the task; otherwise the task takes the lock.
TaskRow(p) ==
    /\ tasks[p].pc = "row"
    /\ IF ~WellFormed(RowsOf(p)[tasks[p].row])
       THEN /\ tasks' = [tasks EXCEPT ![p].pc = "panicked"]
            /\ lock' = lock
       ELSE /\ lock = 0
            /\ lock' = p
            /\ tasks' = [tasks EXCEPT ![p].pc = "locked"]
    /\ UNCHANGED <<shelf, cat_pc, last_page, page_number, awaiting, books, requests,
                   cat_result, probe_vars, sweep_vars, page_vars, banner_vars, step_vars>>

\* TaskPush leaving the row loop after its first push.
TaskPushFirstRowOnly(p) ==
    /\ tasks[p].pc = "locked"
    /\ books' = Append(books, BookOf(RowsOf(p)[tasks[p].row]))
    /\ lock' = 0
    /\ tasks' = [tasks EXCEPT ![p].pc = "finished"]
    /\ UNCHANGED <<shelf, cat_pc, last_page, page_number, awaiting, requests, cat_result,
                   probe_vars, sweep_vars, page_vars, banner_vars, step_vars>>

\* Holding the lock, the task pushes the book; the guard is dropped at the end
\* of the loop body.
TaskPush(p) ==
    /\ tasks[p].pc = "locked"
    /\ books' = Append(books, BookOf(RowsOf(p)[tasks[p].row]))
    /\ lock' = 0
    /\ tasks' = [tasks EXCEPT ![p] =
                    IF tasks[p].row = Len(RowsOf(p))
                    THEN [@ EXCEPT !.pc = "finished"]
                    ELSE [@ EXCEPT !.pc = "row", !.row = @ + 1]]
    /\ UNCHANGED <<shelf, cat_pc, last_page, page_number, awaiting, requests, cat_result,
                   probe_vars, sweep_vars, page_vars, banner_vars, step_vars>>

\* `task.await?` on the tasks in spawn order: a panicked task returns its
\* JoinError; after the last task the list is cloned and returned.
AwaitTask ==
    /\ cat_pc = "await"
    /\ tasks[awaiting].pc \in {"finished", "panicked"}
    /\ IF tasks[awaiting].pc = "panicked"
       THEN /\ cat_result' = Err("task panicked")
            /\ cat_pc' = "returned"
            /\ awaiting' = awaiting
       ELSE IF awaiting = last_page
       THEN /\ lock = 0
            /\ cat_result' = Ok(books)
            /\ cat_pc' = "returned"
            /\ awaiting' = awaiting
       ELSE /\ awaiting' = awaiting + 1
            /\ UNCHANGED <<cat_pc, cat_result>>
    /\ UNCHANGED <<shelf, last_page, page_number, tasks, books, lock, requests,
                   probe_vars, sweep_vars, page_vars, banner_vars, step_vars>>

\* The texts a link of #reviewPagination may carry: page numbers, a number
\* with a sign, with a leading blank, the "next" link and an empty link.
LinkTexts ==
    { <<"2">>, <<"1", "0">>, <<"0">>, <<"+", "3">>, <<" ", "4">>, NextLink, << >> }

\* get_goodreads_books called for a shelf whose first page is not private and
\* carries any pagination links.
PaginationInit ==
    /\ \E links \in UNION { [1..n -> LinkTexts] : n \in 0..MaxLinks } :
          shelf = [npages |-> 1, rows |-> << << >> >>, marker |-> {}, links |-> links]
    /\ cat_pc = "first_fetch"
    /\ last_page = 0
    /\ page_number = 0
    /\ awaiting = 0
    /\ tasks = [p \in 1..MaxPages |-> NoTask]
    /\ books = << >>
    /\ lock = 0
    /\ requests = [p \in 1..MaxPages |-> 0]
    /\ cat_result = Pending

\* The call up to the page count: the first fetch.
PaginationNext == FirstFetch

CatalogNext ==
    \/ FirstFetch
    \/ SpawnTask
    \/ \E p \in 1..MaxPages : TaskFetch(p)
    \/ \E p \in 1..MaxPages : TaskRow(p)
    \/ \E p \in 1..MaxPages : TaskPush(p)
    \/ AwaitTask

\* ------------------------------------------------------------------ probe
Dune2 == <<"D", "u", "n", "e", " ", "2">>
Herbert == <<"H", "e", "r", "b", "e", "r", "t">>

\* The books a probe is called for.
ProbeBooks ==
    { [cover |-> "goodreads.jpg", title |-> Dune2, author |-> Herbert],
      [cover |-> "goodreads.jpg", title |-> <<"D", "u", "n", "e">>, author |-> Herbert] }

\* Library i as get_library_from_website_id builds it.
Library(i) ==
    [website_id |-> i, system_id |-> i, libby_base_url |-> <<"libby", i>>,
     overdrive_base_url |-> <<"overdrive", i>>]

\* The items a lending-API response may hold: titles that equal the book title
\* up to case, that are a prefix of it once newlines and outer blanks are
\* removed, that differ from it, or that are empty; authors that equal the
\* book author up to case or differ.
ItemTitles ==
    { <<"d", "u", "n", "e", " ", "2">>,
      <<" ", "D", "u", "\n">>,
      <<"D", "u", "n", "e", " ", "3">>,
      << >> }

ItemAuthors ==
    { Herbert, <<"H", "E", "R", "B", "E", "R", "T">>, <<"H", "o", "b", "b">> }

Items ==
    [title : ItemTitles, firstCreatorSortName : ItemAuthors,
     isAvailable : BOOLEAN, isHoldable : BOOLEAN, cover : {"overdrive.jpg"}]

\* format!("{}/search/query-{}/page-1", library.libby_base_url, url_safe_query)
LibbySearchUrl(library, book) ==
    <<library.libby_base_url, Encode(book.title \o <<" ">> \o book.author)>>

\* The title of an item as the loop compares it: newlines removed, trimmed.
ItemTitle(item) == Trim(RemoveNewlines(item.title))

\* Matches comparing the titles as they are.
MatchesCaseSensitive(book, item) ==
    /\ StartsWith(book.title, ItemTitle(item))
    /\ ToLowercase(item.firstCreatorSortName) = ToLowercase(book.author)

\* The match rule: the book title starts with the item title and the authors
\* are equal, both compared in lower case.
Matches(book, item) ==
    /\ StartsWith(ToLowercase(book.title), ToLowercase(ItemTitle(item)))
    /\ ToLowercase(item.firstCreatorSortName) = ToLowercase(book.author)

\* The LibbyLibraryBook pushed for a matching item.
FoundBook(book, library, item) ==
    [cover |-> item.cover, title |-> ItemTitle(item),
     author |-> item.firstCreatorSortName,
     is_available |-> item.isAvailable, is_holdable |-> item.isHoldable,
     libby_search_url |-> LibbySearchUrl(library, book)]

\* NotFoundBook carrying the cover of the catalog book.
NotFoundBookWithBookCover(book, library) ==
    [cover |-> book.cover, title |-> book.title, author |-> book.author,
     is_available |-> FALSE, is_holdable |-> FALSE,
     libby_search_url |-> LibbySearchUrl(library, book)]

\* The LibbyLibraryBook pushed when no item of the response matched.
NotFoundBook(book, library) ==
    [cover |-> "", title |-> book.title, author |-> book.author,
     is_available |-> FALSE, is_holdable |-> FALSE,
     libby_search_url |-> LibbySearchUrl(library, book)]

RECURSIVE ReduceFromStopAtHoldable(_, _, _)
\* ReduceFrom breaking out of the loop at the first holdable result too.
ReduceFromStopAtHoldable(lbs, i, acc) ==
    IF i > Len(lbs) THEN acc
    ELSE IF lbs[i].is_available
    THEN [acc EXCEPT !.is_available = TRUE,
                     !.libby_search_url = lbs[i].libby_search_url]
    ELSE IF lbs[i].is_holdable
    THEN [acc EXCEPT !.is_holdable = TRUE,
                     !.libby_search_url = lbs[i].libby_search_url]
    ELSE ReduceFromStopAtHoldable(lbs, i + 1, acc)

RECURSIVE ReduceFromLastHoldable(_, _, _)
\* ReduceFrom taking the url of every holdable result it passes.
ReduceFromLastHoldable(lbs, i, acc) ==
    IF i > Len(lbs) THEN acc
    ELSE IF lbs[i].is_available
    THEN [acc EXCEPT !.is_available = TRUE,
                     !.libby_search_url = lbs[i].libby_search_url]
    ELSE IF lbs[i].is_holdable
    THEN ReduceFromLastHoldable(lbs, i + 1,
                    [acc EXCEPT !.is_holdable = TRUE,
                                !.libby_search_url = lbs[i].libby_search_url])
    ELSE ReduceFromLastHoldable(lbs, i + 1, acc)

RECURSIVE ReduceFrom(_, _, _)
\* The reduction loop from result i on; acc holds is_available, is_holdable
\* and libby_search_url. An available result sets the url and breaks; the
\* first holdable result seen before that sets the url too.
ReduceFrom(lbs, i, acc) ==
    IF i > Len(lbs) THEN acc
    ELSE IF lbs[i].is_available
    THEN [acc EXCEPT !.is_available = TRUE,
                     !.libby_search_url = lbs[i].libby_search_url]
    ELSE IF acc.is_holdable = FALSE /\ lbs[i].is_holdable
    THEN ReduceFrom(lbs, i + 1,
                    [acc EXCEPT !.is_holdable = TRUE,
                                !.libby_search_url = lbs[i].libby_search_url])
    ELSE ReduceFrom(lbs, i + 1, acc)

\* Reduce taking the cover of the verdict from the first per-library result.
ReduceWithLibraryCover(book, lbs) ==
    LET acc == ReduceFrom(lbs, 1,
                   [is_available |-> FALSE, is_holdable |-> FALSE,
                    libby_search_url |-> lbs[1].libby_search_url])
    IN [cover |-> lbs[1].cover, title |-> book.title, author |-> book.author,
        is_available |-> acc.is_available, is_holdable |-> acc.is_holdable,
        libby_search_url |-> acc.libby_search_url,
        library_books |-> lbs]

\* The LibbyBook built from a non-empty list of per-library results.
Reduce(book, lbs) ==
    LET acc == ReduceFrom(lbs, 1,
                   [is_available |-> FALSE, is_holdable |-> FALSE,
                    libby_search_url |-> lbs[1].libby_search_url])
    IN [cover |-> book.cover, title |-> book.title, author |-> book.author,
        is_available |-> acc.is_available, is_holdable |-> acc.is_holdable,
        libby_search_url |-> acc.libby_search_url,
        library_books |-> lbs]

\* Classify asking for is_holdable first.
ClassifyHoldableFirst(v) ==
    IF v.is_holdable THEN "holdable"
    ELSE IF v.is_available THEN "available"
    ELSE "not_owned"

\* The class a verdict is counted under: available, else holdable, else not owned.
Classify(v) ==
    IF v.is_available THEN "available"
    ELSE IF v.is_holdable THEN "holdable"
    ELSE "not_owned"

NoVerdict == [cover |-> "", title |-> << >>, author |-> << >>,
              is_available |-> FALSE, is_holdable |-> FALSE,
              libby_search_url |-> << >>, library_books |-> << >>]

ProbePending == [tag |-> "pending", verdict |-> NoVerdict]
ProbeOk(v) == [tag |-> "ok", verdict |-> v]
ProbeErr == [tag |-> "err", verdict |-> NoVerdict]
ProbePanic == [tag |-> "panic", verdict |-> NoVerdict]

\* Where the library loop stands after library i of n: at the next request, or
\* past the loop, at the reduction.
AfterLibrary(i, n) == IF i < n THEN "request" ELSE "reduce"

ProbeInit ==
    /\ probe_book \in ProbeBooks
    /\ \E n \in 0..MaxLibs : probe_libs = [i \in 1..n |-> Library(i)]
    /\ probe_pc = AfterLibrary(0, Len(probe_libs))
    /\ lib_idx = 1
    /\ item_idx = 0
    /\ libby_library_books = << >>
    /\ queried = << >>
    /\ probe_result = ProbePending

\* The GET for the library the loop is at. A failed request or body returns
\* the error through `?`; a body that is not JSON, or JSON without an items
\* array, panics in unwrap; otherwise the items are iterated.
ProbeRequest ==
    /\ probe_pc = "request"
    /\ queried' = Append(queried, lib_idx)
    /\ \E response \in {"send_failed", "not_json", "no_items_array", "items"} :
        CASE response = "send_failed" ->
                /\ probe_result' = ProbeErr
                /\ probe_pc' = "returned"
          [] response \in {"not_json", "no_items_array"} ->
                /\ probe_result' = ProbePanic
                /\ probe_pc' = "returned"
          [] response = "items" ->
                /\ probe_pc' = "items"
                /\ probe_result' = probe_result
    /\ item_idx' = 0
    /\ UNCHANGED <<probe_book, probe_libs, lib_idx, libby_library_books, cat_vars, sweep_vars, page_vars, banner_vars, step_vars>>

\* ProbeItemsEnd pushing nothing for a library without a matching item.
ProbeItemsEndOmitting ==
    /\ probe_pc = "items"
    /\ lib_idx' = lib_idx + 1
    /\ probe_pc' = AfterLibrary(lib_idx, Len(probe_libs))
    /\ UNCHANGED <<probe_book, probe_libs, item_idx, libby_library_books, queried,
                   probe_result, cat_vars, sweep_vars, page_vars, banner_vars, step_vars>>

\* The items loop reaches the end of the array without a match: the
\* not-found result is pushed and the library loop goes on.
ProbeItemsEnd ==
    /\ probe_pc = "items"
    /\ libby_library_books' =
            Append(libby_library_books, NotFoundBook(probe_book, probe_libs[lib_idx]))
    /\ lib_idx' = lib_idx + 1
    /\ probe_pc' = AfterLibrary(lib_idx, Len(probe_libs))
    /\ UNCHANGED <<probe_book, probe_libs, item_idx, queried, probe_result, cat_vars,
                   sweep_vars, page_vars, banner_vars, step_vars>>

\* The items loop reads the next item of the array. An item lacking one of
\* the five fields panics in unwrap; a matching item is pushed and ends the
\* loop; any other item is passed over.
ProbeItem ==
    /\ probe_pc = "items"
    /\ item_idx < MaxItems
    /\ \/ /\ probe_result' = ProbePanic
          /\ probe_pc' = "returned"
          /\ UNCHANGED <<lib_idx, item_idx, libby_library_books>>
       \/ \E item \in Items :
            IF Matches(probe_book, item)
            THEN /\ libby_library_books' =
                        Append(libby_library_books,
                               FoundBook(probe_book, probe_libs[lib_idx], item))
                 /\ lib_idx' = lib_idx + 1
                 /\ probe_pc' = AfterLibrary(lib_idx, Len(probe_libs))
                 /\ UNCHANGED <<item_idx, probe_result>>
            ELSE /\ item_idx' = item_idx + 1
                 /\ UNCHANGED <<lib_idx, probe_pc, libby_library_books, probe_result>>
    /\ UNCHANGED <<probe_book, probe_libs, queried, cat_vars, sweep_vars, page_vars, banner_vars, step_vars>>

\* After the library loop: the first element of the result list is read, which
\* panics on an empty list; otherwise the LibbyBook is built and returned.
ProbeReduce ==
    /\ probe_pc = "reduce"
    /\ probe_result' = IF libby_library_books = << >>
                       THEN ProbePanic
                       ELSE ProbeOk(Reduce(probe_book, libby_library_books))
    /\ probe_pc' = "returned"
    /\ UNCHANGED <<probe_book, probe_libs, lib_idx, item_idx, libby_library_books,
                   queried, cat_vars, sweep_vars, page_vars, banner_vars, step_vars>>

ProbeNext ==
    \/ ProbeRequest
    \/ ProbeItemsEnd
    \/ ProbeItem
    \/ ProbeReduce

\* ------------------------------------------------------------------ sweep
\* Book b of the table.
SweepBook(b) ==
    [cover |-> "goodreads.jpg", title |-> <<"B", Digits[b + 1]>>, author |-> Herbert]

\* What one library holds of a book: nothing, or an item with its two flags.
Finds ==
    << [found |-> FALSE, isAvailable |-> FALSE, isHoldable |-> FALSE],
       [found |-> TRUE, isAvailable |-> FALSE, isHoldable |-> FALSE],
       [found |-> TRUE, isAvailable |-> FALSE, isHoldable |-> TRUE],
       [found |-> TRUE, isAvailable |-> TRUE, isHoldable |-> FALSE],
       [found |-> TRUE, isAvailable |-> TRUE, isHoldable |-> TRUE] >>

RECURSIVE Pow(_, _)
Pow(b, e) == IF e = 0 THEN 1 ELSE b * Pow(b, e - 1)

\* The k-th upstream outcome of probing a book at n libraries: the last one is
\* a failing request, the others give each library one of the Finds.
LendingOutcome(k, n) ==
    [fails |-> k = Pow(Len(Finds), n),
     finds |-> [i \in 1..n |-> Finds[((k \div Pow(Len(Finds), i - 1)) % Len(Finds)) + 1]]]

\* The upstreams of a sweep over m books at n libraries: book b meets outcome
\* b + shift, so that every outcome is met by every book in some upstream.
Lendings(m, n) ==
    { [b \in 1..m |-> LendingOutcome((b + shift) % (Pow(Len(Finds), n) + 1), n)] :
        shift \in 0..Pow(Len(Finds), n) }

\* The per-library result of probing `book` at `library` under outcome `o`.
LibraryResult(book, library, o) ==
    LET f == o.finds[library.system_id]
    IN IF f.found
       THEN FoundBook(book, library,
                [title |-> book.title, firstCreatorSortName |-> book.author,
                 isAvailable |-> f.isAvailable, isHoldable |-> f.isHoldable,
                 cover |-> "overdrive.jpg"])
       ELSE NotFoundBook(book, library)

\* What get_libby_availability(book, libraries) returns to the sweep under
\* outcome `o`: an error when a request fails or the library list is empty
\* (the server function panics), otherwise the reduced verdict.
GetLibbyAvailability(book, libraries, o) ==
    IF o.fails \/ libraries = << >>
    THEN ProbeErr
    ELSE ProbeOk(Reduce(book, [i \in 1..Len(libraries) |->
                                  LibraryResult(book, libraries[i], o)]))

SweepInit ==
    /\ \E m \in 0..MaxBooks : sweep_books = [b \in 1..m |-> SweepBook(b)]
    /\ \E n \in 0..MaxSweepLibs : selected_libraries = [i \in 1..n |-> Library(i)]
    /\ lending \in Lendings(Len(sweep_books), Len(selected_libraries))
    /\ sweep_pc = "idle"
    /\ book_iter = 1
    /\ in_flight = {}
    /\ libby_progress = 0
    /\ available_count = 0
    /\ holdable_count = 0
    /\ not_owned_count = 0
    /\ availability = << >>

\* The upstreams of a sweep at one library in which the request fails for
\* every book, for all but the first, for all but the last, or for all but
\* these two.
FailingLendings(m) ==
    { [b \in 1..m |-> LendingOutcome(IF b \in answered THEN b % Len(Finds) ELSE Len(Finds), 1)] :
        answered \in { {}, {1}, {m}, {1, m} } }

\* The page before a click, one library selected.
FairSweepInit ==
    /\ \E m \in 0..MaxBooks : sweep_books = [b \in 1..m |-> SweepBook(b)]
    /\ selected_libraries = <<Library(1)>>
    /\ lending \in FailingLendings(Len(sweep_books))
    /\ sweep_pc = "idle"
    /\ book_iter = 1
    /\ in_flight = {}
    /\ libby_progress = 0
    /\ available_count = 0
    /\ holdable_count = 0
    /\ not_owned_count = 0
    /\ availability = << >>

\* What probing a book of the table yields: no library holds it, the first
\* has it to hold, the first has it available, the first has it to hold and
\* the second available (a verdict with both flags true), or the request fails.
LabelOutcomes ==
    { LendingOutcome(k, LabelLibs) :
        k \in {0, 2, 3, 2 + 3 * Len(Finds), Pow(Len(Finds), LabelLibs)} }

\* The page before a click, with its libraries selected.
LabelInit ==
    /\ \E m \in 0..MaxLabelBooks : sweep_books = [b \in 1..m |-> SweepBook(b)]
    /\ selected_libraries = [i \in 1..LabelLibs |-> Library(i)]
    /\ lending \in [1..Len(sweep_books) -> LabelOutcomes]
    /\ sweep_pc = "idle"
    /\ book_iter = 1
    /\ in_flight = {}
    /\ libby_progress = 0
    /\ available_count = 0
    /\ holdable_count = 0
    /\ not_owned_count = 0
    /\ availability = << >>

\* The per-book future pushed for book b: the library list is read when the
\* future starts.
Handle(b) == [book |-> b, libraries |-> selected_libraries]

\* The click handler: the signals are reset and fetch_concurrent is spawned.
FetchAvailability ==
    /\ sweep_pc = "idle"
    /\ libby_progress' = 0
    /\ available_count' = 0
    /\ holdable_count' = 0
    /\ not_owned_count' = 0
    /\ availability' = << >>
    /\ book_iter' = 1
    /\ in_flight' = {}
    /\ sweep_pc' = "spawned"
    /\ UNCHANGED <<sweep_books, selected_libraries, lending, cat_vars, probe_vars, page_vars, banner_vars, step_vars>>

\* StartBatch with the range 1..concurrency_limit.
StartBatchOneShort ==
    /\ sweep_pc = "spawned"
    /\ LET n == IF Len(sweep_books) < concurrency_limit - 1
                THEN Len(sweep_books) ELSE concurrency_limit - 1
       IN /\ in_flight' = {Handle(b) : b \in 1..n}
          /\ book_iter' = n + 1
          /\ sweep_pc' = IF n = 0 THEN "done" ELSE "running"
    /\ UNCHANGED <<sweep_books, selected_libraries, lending, libby_progress,
                   available_count, holdable_count, not_owned_count, availability,
                   cat_vars, probe_vars, page_vars, banner_vars, step_vars>>

\* StartBatch with the inclusive range 0..=concurrency_limit.
StartBatchInclusive ==
    /\ sweep_pc = "spawned"
    /\ LET n == IF Len(sweep_books) < concurrency_limit + 1
                THEN Len(sweep_books) ELSE concurrency_limit + 1
       IN /\ in_flight' = {Handle(b) : b \in 1..n}
          /\ book_iter' = n + 1
          /\ sweep_pc' = IF n = 0 THEN "done" ELSE "running"
    /\ UNCHANGED <<sweep_books, selected_libraries, lending, libby_progress,
                   available_count, holdable_count, not_owned_count, availability,
                   cat_vars, probe_vars, page_vars, banner_vars, step_vars>>

\* The initial batch: `for _ in 0..concurrency_limit`, one future per book
\* while the iterator yields one. Without books the stream ends at once.
StartBatch ==
    /\ sweep_pc = "spawned"
    /\ LET n == IF Len(sweep_books) < concurrency_limit
                THEN Len(sweep_books) ELSE concurrency_limit
       IN /\ in_flight' = {Handle(b) : b \in 1..n}
          /\ book_iter' = n + 1
          /\ sweep_pc' = IF n = 0 THEN "done" ELSE "running"
    /\ UNCHANGED <<sweep_books, selected_libraries, lending, libby_progress,
                   available_count, holdable_count, not_owned_count, availability,
                   cat_vars, probe_vars, page_vars, banner_vars, step_vars>>

\* ProbeComplete starting no further book after a probe that returned an error.
ProbeCompleteNoRefillOnError(h) ==
    /\ sweep_pc = "running"
    /\ h \in in_flight
    /\ LET fetched == GetLibbyAvailability(sweep_books[h.book], h.libraries,
                                           lending[h.book])
           class == Classify(fetched.verdict)
           more == book_iter <= Len(sweep_books) /\ fetched.tag = "ok"
       IN /\ IF fetched.tag = "ok"
             THEN /\ availability' = Append(availability, fetched.verdict)
                  /\ available_count' = available_count + (IF class = "available" THEN 1 ELSE 0)
                  /\ holdable_count' = holdable_count + (IF class = "holdable" THEN 1 ELSE 0)
                  /\ not_owned_count' = not_owned_count + (IF class = "not_owned" THEN 1 ELSE 0)
             ELSE UNCHANGED <<availability, available_count, holdable_count, not_owned_count>>
          /\ libby_progress' = libby_progress + 1
          /\ in_flight' = (in_flight \ {h}) \cup (IF more THEN {Handle(book_iter)} ELSE {})
          /\ book_iter' = IF more THEN book_iter + 1 ELSE book_iter
          /\ sweep_pc' = IF in_flight' = {} THEN "done" ELSE "running"
    /\ UNCHANGED <<sweep_books, selected_libraries, lending, cat_vars, probe_vars, page_vars, banner_vars, step_vars>>

\* ProbeComplete incrementing progress only for a probe that returned a verdict.
ProbeCompleteNoProgressOnError(h) ==
    /\ sweep_pc = "running"
    /\ h \in in_flight
    /\ LET fetched == GetLibbyAvailability(sweep_books[h.book], h.libraries,
                                           lending[h.book])
           class == Classify(fetched.verdict)
           more == book_iter <= Len(sweep_books)
       IN /\ IF fetched.tag = "ok"
             THEN /\ availability' = Append(availability, fetched.verdict)
                  /\ available_count' = available_count + (IF class = "available" THEN 1 ELSE 0)
                  /\ holdable_count' = holdable_count + (IF class = "holdable" THEN 1 ELSE 0)
                  /\ not_owned_count' = not_owned_count + (IF class = "not_owned" THEN 1 ELSE 0)
                  /\ libby_progress' = libby_progress + 1
             ELSE UNCHANGED <<availability, available_count, holdable_count,
                              not_owned_count, libby_progress>>
          /\ in_flight' = (in_flight \ {h}) \cup (IF more THEN {Handle(book_iter)} ELSE {})
          /\ book_iter' = IF more THEN book_iter + 1 ELSE book_iter
          /\ sweep_pc' = IF in_flight' = {} THEN "done" ELSE "running"
    /\ UNCHANGED <<sweep_books, selected_libraries, lending, cat_vars, probe_vars, page_vars, banner_vars, step_vars>>

\* ProbeComplete counting a probe that returned an error as not owned.
ProbeCompleteCountsErrorNotOwned(h) ==
    /\ sweep_pc = "running"
    /\ h \in in_flight
    /\ LET fetched == GetLibbyAvailability(sweep_books[h.book], h.libraries,
                                           lending[h.book])
           class == Classify(fetched.verdict)
           more == book_iter <= Len(sweep_books)
       IN /\ IF fetched.tag = "ok"
             THEN /\ availability' = Append(availability, fetched.verdict)
                  /\ available_count' = available_count + (IF class = "available" THEN 1 ELSE 0)
                  /\ holdable_count' = holdable_count + (IF class = "holdable" THEN 1 ELSE 0)
                  /\ not_owned_count' = not_owned_count + (IF class = "not_owned" THEN 1 ELSE 0)
             ELSE /\ not_owned_count' = not_owned_count + 1
                  /\ UNCHANGED <<availability, available_count, holdable_count>>
          /\ libby_progress' = libby_progress + 1
          /\ in_flight' = (in_flight \ {h}) \cup (IF more THEN {Handle(book_iter)} ELSE {})
          /\ book_iter' = IF more THEN book_iter + 1 ELSE book_iter
          /\ sweep_pc' = IF in_flight' = {} THEN "done" ELSE "running"
    /\ UNCHANGED <<sweep_books, selected_libraries, lending, cat_vars, probe_vars, page_vars, banner_vars, step_vars>>

\* ProbeComplete leaving a probe that returned an error in the window, to be
\* polled again.
ProbeCompleteRetriesOnError(h) ==
    /\ sweep_pc = "running"
    /\ h \in in_flight
    /\ LET fetched == GetLibbyAvailability(sweep_books[h.book], h.libraries,
                                           lending[h.book])
           class == Classify(fetched.verdict)
           more == book_iter <= Len(sweep_books)
       IN IF fetched.tag = "ok"
          THEN /\ availability' = Append(availability, fetched.verdict)
               /\ available_count' = available_count + (IF class = "available" THEN 1 ELSE 0)
               /\ holdable_count' = holdable_count + (IF class = "holdable" THEN 1 ELSE 0)
               /\ not_owned_count' = not_owned_count + (IF class = "not_owned" THEN 1 ELSE 0)
               /\ libby_progress' = libby_progress + 1
               /\ in_flight' = (in_flight \ {h}) \cup (IF more THEN {Handle(book_iter)} ELSE {})
               /\ book_iter' = IF more THEN book_iter + 1 ELSE book_iter
               /\ sweep_pc' = IF in_flight' = {} THEN "done" ELSE "running"
          ELSE UNCHANGED <<availability, available_count, holdable_count, not_owned_count,
                           libby_progress, in_flight, book_iter, sweep_pc>>
    /\ UNCHANGED <<sweep_books, selected_libraries, lending, cat_vars, probe_vars, page_vars, banner_vars, step_vars>>

\* ProbeComplete starting the book of the completed probe again in place of
\* the next book of the iterator.
ProbeCompleteRestartsCompleted(h) ==
    /\ sweep_pc = "running"
    /\ h \in in_flight
    /\ LET fetched == GetLibbyAvailability(sweep_books[h.book], h.libraries,
                                           lending[h.book])
           class == Classify(fetched.verdict)
           more == book_iter <= Len(sweep_books)
       IN /\ IF fetched.tag = "ok"
             THEN /\ availability' = Append(availability, fetched.verdict)
                  /\ available_count' = available_count + (IF class = "available" THEN 1 ELSE 0)
                  /\ holdable_count' = holdable_count + (IF class = "holdable" THEN 1 ELSE 0)
                  /\ not_owned_count' = not_owned_count + (IF class = "not_owned" THEN 1 ELSE 0)
             ELSE UNCHANGED <<availability, available_count, holdable_count, not_owned_count>>
          /\ libby_progress' = libby_progress + 1
          /\ in_flight' = IF more THEN in_flight ELSE in_flight \ {h}
          /\ book_iter' = IF more THEN book_iter + 1 ELSE book_iter
          /\ sweep_pc' = IF in_flight' = {} THEN "done" ELSE "running"
    /\ UNCHANGED <<sweep_books, selected_libraries, lending, cat_vars, probe_vars, page_vars, banner_vars, step_vars>>

\* ProbeComplete counting every verdict that is not available as not owned,
\* the holdable ones too.
ProbeCompleteCountsUnavailable(h) ==
    /\ sweep_pc = "running"
    /\ h \in in_flight
    /\ LET fetched == GetLibbyAvailability(sweep_books[h.book], h.libraries,
                                           lending[h.book])
           class == Classify(fetched.verdict)
           more == book_iter <= Len(sweep_books)
       IN /\ IF fetched.tag = "ok"
             THEN /\ availability' = Append(availability, fetched.verdict)
                  /\ available_count' = available_count + (IF class = "available" THEN 1 ELSE 0)
                  /\ holdable_count' = holdable_count + (IF class = "holdable" THEN 1 ELSE 0)
                  /\ not_owned_count' = not_owned_count + (IF class # "available" THEN 1 ELSE 0)
             ELSE UNCHANGED <<availability, available_count, holdable_count, not_owned_count>>
          /\ libby_progress' = libby_progress + 1
          /\ in_flight' = (in_flight \ {h}) \cup (IF more THEN {Handle(book_iter)} ELSE {})
          /\ book_iter' = IF more THEN book_iter + 1 ELSE book_iter
          /\ sweep_pc' = IF in_flight' = {} THEN "done" ELSE "running"
    /\ UNCHANGED <<sweep_books, selected_libraries, lending, cat_vars, probe_vars, page_vars, banner_vars, step_vars>>

\* One future of the window completes: a verdict is appended and counted under
\* its class, an error is dropped, progress is incremented either way; then
\* the loop body starts the next book if the iterator yields one.
ProbeComplete(h) ==
    /\ sweep_pc = "running"
    /\ h \in in_flight
    /\ LET fetched == GetLibbyAvailability(sweep_books[h.book], h.libraries,
                                           lending[h.book])
           class == Classify(fetched.verdict)
           more == book_iter <= Len(sweep_books)
       IN /\ IF fetched.tag = "ok"
             THEN /\ availability' = Append(availability, fetched.verdict)
                  /\ available_count' = available_count + (IF class = "available" THEN 1 ELSE 0)
                  /\ holdable_count' = holdable_count + (IF class = "holdable" THEN 1 ELSE 0)
                  /\ not_owned_count' = not_owned_count + (IF class = "not_owned" THEN 1 ELSE 0)
             ELSE UNCHANGED <<availability, available_count, holdable_count, not_owned_count>>
          /\ libby_progress' = libby_progress + 1
          /\ in_flight' = (in_flight \ {h}) \cup (IF more THEN {Handle(book_iter)} ELSE {})
          /\ book_iter' = IF more THEN book_iter + 1 ELSE book_iter
          /\ sweep_pc' = IF in_flight' = {} THEN "done" ELSE "running"
    /\ UNCHANGED <<sweep_books, selected_libraries, lending, cat_vars, probe_vars, page_vars, banner_vars, step_vars>>

SweepNext ==
    \/ FetchAvailability
    \/ StartBatch
    \/ \E h \in in_flight : ProbeComplete(h)

\* ------------------------------------------------------------------ page
HasId(ids, id) == \E k \in 1..Len(ids) : ids[k] = id

HasLibrary(libs, id) == \E k \in 1..Len(libs) : libs[k].website_id = id

\* The selection effect, first half: `libs.retain(..)` keeps the libraries
\* whose website id is still selected.
Retain(libs, ids) == SelectSeq(libs, LAMBDA lib : HasId(ids, lib.website_id))

\* The selection effect, second half: the selected ids no library of the
\* signal carries.
NewLibsToFetch(libs, ids) == SelectSeq(ids, LAMBDA id : ~HasLibrary(libs, id))

\* The tasks after a run of the effect: a task fetching the new ids, one after
\* the other, is spawned unless there is none.
EffectTasks(ts, libs, ids) ==
    LET new == NewLibsToFetch(Retain(libs, ids), ids)
    IN IF new = << >> THEN ts ELSE Append(ts, new)

\* The effect reads selected_libraries inside the filter closure, which runs
\* once per selected id: with no id selected the signal is not read and the
\* effect does not depend on it.
EffectReadsLibraries(ids) == ids # << >>

\* What probing every book of the page yields: no library holds it, the first
\* library has it available, or the request fails.
PageOutcomes ==
    { LendingOutcome(k, MaxPageLibs) : k \in {0, 3, Pow(Len(Finds), MaxPageLibs)} }

PageLendings(m) == { [b \in 1..m |-> o] : o \in PageOutcomes }

\* The page after HomePage has run: the books of the table, the website ids
\* of the `libraries` query parameter set and their fetch spawned by the effect.
SelectionInit ==
    /\ \E m \in 0..MaxBooks : sweep_books = [b \in 1..m |-> SweepBook(b)]
    /\ lending \in PageLendings(Len(sweep_books))
    /\ \E n \in 0..MaxPageLibs : selected_library_website_ids = [i \in 1..n |-> i]
    /\ selected_libraries = << >>
    /\ lib_tasks = EffectTasks(<< >>, << >>, selected_library_website_ids)
    /\ effect_tracks_libraries = EffectReadsLibraries(selected_library_website_ids)
    /\ stale = << >>
    /\ sweep_pc = "idle"
    /\ book_iter = 1
    /\ in_flight = {}
    /\ libby_progress = 0
    /\ available_count = 0
    /\ holdable_count = 0
    /\ not_owned_count = 0
    /\ availability = << >>

\* The "Add" button of a search result: the id is pushed unless selected, and
\* the effect runs on the new ids.
AddSelectedLibrary(i) ==
    /\ sweep_pc # "spawned"
    /\ Len(lib_tasks) < MaxLibTasks
    /\ ~HasId(selected_library_website_ids, i)
    /\ LET ids == Append(selected_library_website_ids, i)
       IN /\ selected_library_website_ids' = ids
          /\ selected_libraries' = Retain(selected_libraries, ids)
          /\ lib_tasks' = EffectTasks(lib_tasks, selected_libraries, ids)
          /\ effect_tracks_libraries' = EffectReadsLibraries(ids)
    /\ UNCHANGED <<sweep_books, lending, sweep_pc, book_iter, in_flight, libby_progress,
                   available_count, holdable_count, not_owned_count, availability,
                   stale, cat_vars, probe_vars, banner_vars, step_vars>>

\* The "Remove" button of a search result or of a selected library: the id is
\* dropped from the ids, and the effect runs on the new ids.
RemoveSelectedLibrary(i) ==
    /\ sweep_pc # "spawned"
    /\ HasId(selected_library_website_ids, i) \/ HasLibrary(selected_libraries, i)
    /\ LET ids == SelectSeq(selected_library_website_ids, LAMBDA id : id # i)
       IN /\ selected_library_website_ids' = ids
          /\ selected_libraries' = Retain(selected_libraries, ids)
          /\ lib_tasks' = EffectTasks(lib_tasks, selected_libraries, ids)
          /\ effect_tracks_libraries' = EffectReadsLibraries(ids)
    /\ UNCHANGED <<sweep_books, lending, sweep_pc, book_iter, in_flight, libby_progress,
                   available_count, holdable_count, not_owned_count, availability,
                   stale, cat_vars, probe_vars, banner_vars, step_vars>>

\* The tasks once task k has got the answer for its first id.
TasksAfter(ts, k) ==
    IF Len(ts[k]) = 1
    THEN [j \in 1..(Len(ts) - 1) |-> IF j < k THEN ts[j] ELSE ts[j + 1]]
    ELSE [ts EXCEPT ![k] = Tail(ts[k])]

\* get_library_from_website_id answers the first id of task k. An error is
\* passed over. A library is pushed unless one with its website id is in the
\* signal; the update of the signal runs the effect again if the effect
\* depends on it.
LibraryArrives(k) ==
    /\ sweep_pc # "spawned"
    /\ k \in 1..Len(lib_tasks)
    /\ \E answer \in {"ok", "err"} :
        LET id == Head(lib_tasks[k])
            ids == selected_library_website_ids
            pushed == IF HasLibrary(selected_libraries, id)
                      THEN selected_libraries
                      ELSE Append(selected_libraries, Library(id))
        IN IF answer = "ok" /\ effect_tracks_libraries
           THEN /\ selected_libraries' = Retain(pushed, ids)
                /\ lib_tasks' = EffectTasks(TasksAfter(lib_tasks, k), pushed, ids)
                /\ effect_tracks_libraries' = EffectReadsLibraries(ids)
           ELSE /\ selected_libraries' = IF answer = "ok" THEN pushed ELSE selected_libraries
                /\ lib_tasks' = TasksAfter(lib_tasks, k)
                /\ UNCHANGED effect_tracks_libraries
    /\ UNCHANGED <<sweep_books, lending, sweep_pc, book_iter, in_flight, libby_progress,
                   available_count, holdable_count, not_owned_count, availability,
                   selected_library_website_ids, stale, cat_vars, probe_vars, banner_vars, step_vars>>

\* The click handler run while a sweep is running or has finished: the
\* signals are reset and a new fetch_concurrent is spawned; the one spawned
\* before is not cancelled and keeps its iterator and its futures.
FetchAvailabilityAgain ==
    /\ sweep_pc \in {"running", "done"}
    /\ in_flight # {} => Len(stale) < MaxStale
    /\ libby_progress' = 0
    /\ available_count' = 0
    /\ holdable_count' = 0
    /\ not_owned_count' = 0
    /\ availability' = << >>
    /\ stale' = IF in_flight = {} THEN stale
                ELSE Append(stale, [book_iter |-> book_iter, in_flight |-> in_flight])
    /\ book_iter' = 1
    /\ in_flight' = {}
    /\ sweep_pc' = "spawned"
    /\ UNCHANGED <<sweep_books, selected_libraries, lending, selected_library_website_ids,
                   lib_tasks, effect_tracks_libraries, cat_vars, probe_vars, banner_vars, step_vars>>

\* The earlier sweeps once sweep k has seen future h complete.
StaleAfter(k, h) ==
    LET old == stale[k]
        more == old.book_iter <= Len(sweep_books)
        left == (old.in_flight \ {h}) \cup (IF more THEN {Handle(old.book_iter)} ELSE {})
    IN IF left = {}
       THEN [j \in 1..(Len(stale) - 1) |-> IF j < k THEN stale[j] ELSE stale[j + 1]]
       ELSE [stale EXCEPT ![k] = [book_iter |-> IF more THEN old.book_iter + 1
                                                ELSE old.book_iter,
                                  in_flight |-> left]]

\* One future of an earlier sweep completes: it writes to the same signals as
\* the futures of the current sweep, and its sweep starts its next book.
StaleProbeComplete(k, h) ==
    /\ sweep_pc # "spawned"
    /\ k \in 1..Len(stale)
    /\ h \in stale[k].in_flight
    /\ LET fetched == GetLibbyAvailability(sweep_books[h.book], h.libraries,
                                           lending[h.book])
           class == Classify(fetched.verdict)
       IN /\ IF fetched.tag = "ok"
             THEN /\ availability' = Append(availability, fetched.verdict)
                  /\ available_count' = available_count + (IF class = "available" THEN 1 ELSE 0)
                  /\ holdable_count' = holdable_count + (IF class = "holdable" THEN 1 ELSE 0)
                  /\ not_owned_count' = not_owned_count + (IF class = "not_owned" THEN 1 ELSE 0)
             ELSE UNCHANGED <<availability, available_count, holdable_count, not_owned_count>>
          /\ libby_progress' = libby_progress + 1
          /\ stale' = StaleAfter(k, h)
    /\ UNCHANGED <<sweep_books, selected_libraries, lending, sweep_pc, book_iter, in_flight,
                   selected_library_website_ids, lib_tasks, effect_tracks_libraries,
                   cat_vars, probe_vars, banner_vars, step_vars>>

SelectionNext ==
    \/ FetchAvailability
    \/ StartBatch
    \/ \E h \in in_flight : ProbeComplete(h)
    \/ \E i \in 1..MaxPageLibs : AddSelectedLibrary(i)
    \/ \E i \in 1..MaxPageLibs : RemoveSelectedLibrary(i)
    \/ \E k \in 1..Len(lib_tasks) : LibraryArrives(k)

\* The page with its libraries fetched and a table of books, before a click.
ResweepInit ==
    /\ \E m \in 0..MaxResweepBooks : sweep_books = [b \in 1..m |-> SweepBook(b)]
    /\ \E n \in 0..MaxSweepLibs :
          /\ selected_libraries = [i \in 1..n |-> Library(i)]
          /\ selected_library_website_ids = [i \in 1..n |-> i]
    /\ lending \in Lendings(Len(sweep_books), Len(selected_libraries))
    /\ lib_tasks = << >>
    /\ effect_tracks_libraries = EffectReadsLibraries(selected_library_website_ids)
    /\ stale = << >>
    /\ sweep_pc = "idle"
    /\ book_iter = 1
    /\ in_flight = {}
    /\ libby_progress = 0
    /\ available_count = 0
    /\ holdable_count = 0
    /\ not_owned_count = 0
    /\ availability = << >>

ResweepNext ==
    \/ FetchAvailability
    \/ StartBatch
    \/ \E h \in in_flight : ProbeComplete(h)
    \/ FetchAvailabilityAgain
    \/ \E k \in 1..Len(stale) : \E h \in stale[k].in_flight : StaleProbeComplete(k, h)

\* ------------------------------------------------------------------ row title
\* A child node of the title anchor: a text node, or an element (the span of
\* class darkGreyText) with its own text.
TextNode(t) == [is_text |-> TRUE, text |-> t]

SpanNode(t) == [is_text |-> FALSE, text |-> t]

DarkerShade ==
    <<"A", " ", "D", "a", "r", "k", "e", "r", " ", "S", "h", "a", "d", "e", " ",
      "o", "f", " ", "M", "a", "g", "i", "c">>

\* The nodes the anchor is made of: the title text, bare or between the line
\* breaks and indentation of the markup, a text node of white space only, and
\* the annotation span.
AnchorNodes ==
    { TextNode(DarkerShade),
      TextNode(<<"\n", " ">> \o DarkerShade \o <<"\n", " ", " ">>),
      TextNode(<<"\n">>),
      SpanNode(<<"(", "S", ",", " ", "#", "1", ")">>) }

RECURSIVE Join(_, _)
\* [&str]::join(sep)
Join(parts, sep) ==
    IF parts = << >> THEN << >>
    ELSE IF Len(parts) = 1 THEN parts[1]
    ELSE parts[1] \o sep \o Join(Tail(parts), sep)

IsTextNode(node) == node.is_text

\* The title of a row: the children of the anchor that are text nodes, each
\* trimmed, joined with one blank.
ScrapedTitle(children) ==
    LET texts == SelectSeq(children, IsTextNode)
    IN Join([i \in 1..Len(texts) |-> Trim(texts[i].text)], <<" ">>)

\* A shelf row whose title anchor has been selected.
ScrapeInit ==
    /\ title_element \in UNION { [1..n -> AnchorNodes] : n \in 0..MaxNodes }
    /\ scraped_title = << >>
    /\ match_item = << >>
    /\ match_result = "off"
    /\ items = << >>

\* The row loop builds the title of the row.
ScrapeTitle ==
    /\ scraped_title = << >>
    /\ scraped_title' = <<ScrapedTitle(title_element)>>
    /\ UNCHANGED <<title_element, match_item, match_result, items, cat_vars,
                   probe_vars, sweep_vars, page_vars, banner_vars>>

ScrapeNext == ScrapeTitle

\* ------------------------------------------------------------------ item match
\* The exact rule of the command-line version: the item title as reported
\* equals the book title, and the authors are equal, all in lower case.
MatchesExact(book, item) ==
    /\ ToLowercase(item.title) = ToLowercase(book.title)
    /\ ToLowercase(item.firstCreatorSortName) = ToLowercase(book.author)

\* The items loop at one item of a response for probe_book.
CompareInit ==
    /\ probe_book \in ProbeBooks
    /\ probe_libs = << >>
    /\ probe_pc = "off"
    /\ lib_idx = 0
    /\ item_idx = 0
    /\ libby_library_books = << >>
    /\ queried = << >>
    /\ probe_result = ProbePending
    /\ match_item \in { <<item>> : item \in Items }
    /\ match_result = "compare"
    /\ title_element = << >>
    /\ scraped_title = << >>
    /\ items = << >>

\* The `if` of the items loop: the item is accepted or passed over.
CompareItem ==
    /\ match_result = "compare"
    /\ match_result' = IF Matches(probe_book, match_item[1])
                       THEN "accepted" ELSE "passed_over"
    /\ UNCHANGED <<title_element, scraped_title, match_item, items, cat_vars,
                   probe_vars, sweep_vars, page_vars, banner_vars>>

CompareNext == CompareItem

\* ------------------------------------------------------------------ items loop
\* The elements of an items array: an item with its five fields, its cover
\* named after its place in the array, or an element lacking one of them.
ResponseTitles == { <<" ", "D", "u", "\n">>, <<"D", "u", "n", "e", " ", "3">> }

ResponseAuthors == { <<"H", "E", "R", "B", "E", "R", "T">>, <<"H", "o", "b", "b">> }

ResponseElements(k) ==
    { [shape |-> "ok",
       item |-> [title |-> t, firstCreatorSortName |-> a, isAvailable |-> f[1],
                 isHoldable |-> f[2], cover |-> <<"cover150Wide", k>>]] :
        t \in ResponseTitles, a \in ResponseAuthors,
        f \in {<<FALSE, FALSE>>, <<FALSE, TRUE>>, <<TRUE, FALSE>>} }
    \cup
    { [shape |-> "lacks_field",
       item |-> [title |-> << >>, firstCreatorSortName |-> << >>, isAvailable |-> FALSE,
                 isHoldable |-> FALSE, cover |-> <<"cover150Wide", k>>]] }

RECURSIVE Responses(_)
\* The items arrays of n elements.
Responses(n) ==
    IF n = 0 THEN { << >> }
    ELSE { Append(r, e) : r \in Responses(n - 1), e \in ResponseElements(n) }

\* get_libby_availability for one library, the response of the library
\* received and its items array about to be iterated.
ScanInit ==
    /\ probe_book \in { book \in ProbeBooks : book.title = Dune2 }
    /\ probe_libs = <<Library(1)>>
    /\ probe_pc = "items"
    /\ lib_idx = 1
    /\ item_idx = 0
    /\ libby_library_books = << >>
    /\ queried = <<1>>
    /\ probe_result = ProbePending
    /\ items \in UNION { Responses(n) : n \in 0..MaxScanItems }
    /\ title_element = << >>
    /\ scraped_title = << >>
    /\ match_item = << >>
    /\ match_result = "off"

\* ScanItem without the `break`: the loop goes on after a matching item.
ScanItemWithoutBreak ==
    /\ probe_pc \in {"items", "reduce"}
    /\ item_idx + Len(libby_library_books) < Len(items)
    /\ LET e == items[item_idx + Len(libby_library_books) + 1]
       IN IF e.shape # "ok"
          THEN /\ probe_result' = ProbePanic
               /\ probe_pc' = "returned"
               /\ UNCHANGED <<lib_idx, item_idx, libby_library_books>>
          ELSE IF Matches(probe_book, e.item)
          THEN /\ libby_library_books' =
                      Append(libby_library_books,
                             FoundBook(probe_book, probe_libs[lib_idx], e.item))
               /\ probe_pc' = "reduce"
               /\ UNCHANGED <<lib_idx, item_idx, probe_result>>
          ELSE /\ item_idx' = item_idx + 1
               /\ UNCHANGED <<lib_idx, probe_pc, libby_library_books, probe_result>>
    /\ UNCHANGED <<probe_book, probe_libs, queried, items, title_element, scraped_title,
                   match_item, match_result, cat_vars, sweep_vars, page_vars, banner_vars>>

\* One iteration of `for item in items` on the array: an element lacking a
\* field panics in unwrap; a matching item is pushed and ends the loop; any
\* other item is passed over.
ScanItem ==
    /\ probe_pc = "items"
    /\ item_idx < Len(items)
    /\ LET e == items[item_idx + 1]
       IN IF e.shape # "ok"
          THEN /\ probe_result' = ProbePanic
               /\ probe_pc' = "returned"
               /\ UNCHANGED <<lib_idx, item_idx, libby_library_books>>
          ELSE IF Matches(probe_book, e.item)
          THEN /\ libby_library_books' =
                      Append(libby_library_books,
                             FoundBook(probe_book, probe_libs[lib_idx], e.item))
               /\ lib_idx' = lib_idx + 1
               /\ probe_pc' = AfterLibrary(lib_idx, Len(probe_libs))
               /\ UNCHANGED <<item_idx, probe_result>>
          ELSE /\ item_idx' = item_idx + 1
               /\ UNCHANGED <<lib_idx, probe_pc, libby_library_books, probe_result>>
    /\ UNCHANGED <<probe_book, probe_libs, queried, items, title_element, scraped_title,
                   match_item, match_result, cat_vars, sweep_vars, page_vars, banner_vars>>

\* The loop has passed over every item of the array: `book_found_at_library`
\* is false and the not-found result is pushed.
ScanItemsEnd ==
    /\ probe_pc = "items"
    /\ item_idx = Len(items)
    /\ ProbeItemsEnd

ScanNext ==
    \/ ScanItem
    \/ ScanItemsEnd
    \/ ProbeReduce

\* ------------------------------------------------------------------ banner
PrivateProfile ==
    <<"P", "r", "i", "v", "a", "t", "e", " ", "p", "r", "o", "f", "i",
      "l", "e">>

RequestFailed ==
    <<"r", "e", "q", "u", "e", "s", "t", " ", "f", "a", "i", "l", "e",
      "d">>

TaskPanicked ==
    <<"t", "a", "s", "k", " ", "p", "a", "n", "i", "c", "k", "e", "d">>

\* The text of the message a catalog error carries.
MessageText(m) ==
    CASE m = "Private profile" -> PrivateProfile
      [] m = "request failed" -> RequestFailed
      [] OTHER -> TaskPanicked

\* ServerFnError::ServerError(m).to_string()
ErrorToString(m) ==
    <<"e", "r", "r", "o", "r", " ", "r", "u", "n", "n", "i", "n", "g",
      " ", "s", "e", "r", "v", "e", "r", " ", "f", "u", "n", "c", "t",
      "i", "o", "n", ":", " ">>
        \o MessageText(m)

\* str::contains()
Contains(s, sub) ==
    \E i \in 0..(Len(s) - Len(sub)) : SubSeq(s, i + 1, i + Len(sub)) = sub

\* The shelf of user u, and what get_goodreads_books(u) may return: the shelf,
\* or one of its errors.
UserBooks(u) == IF u = 0 THEN << >> ELSE <<SweepBook(u)>>

CatalogResults(u) ==
    { Ok(UserBooks(u)), Err("Private profile"), Err("request failed"),
      Err("task panicked") }

\* HomePage has run: with a user id in the URL its shelf is being fetched.
BannerInit ==
    /\ user_id \in 0..MaxUsers
    /\ book_fetches = IF user_id = 0 THEN << >> ELSE <<user_id>>
    /\ fetch_result = Pending
    /\ is_private_profile = FALSE

\* on:input of the user id field: the signal is set and fetch_books spawns a
\* task calling get_goodreads_books with the id.
InputUserId(u) ==
    /\ Len(book_fetches) < MaxFetches
    /\ user_id' = u
    /\ book_fetches' = Append(book_fetches, u)
    /\ UNCHANGED <<fetch_result, is_private_profile, cat_vars, probe_vars, sweep_vars,
                   page_vars, step_vars>>

\* FetchBooksReturns showing the banner for every error.
FetchBooksReturnsBannerOnAnyError(k) ==
    /\ k \in 1..Len(book_fetches)
    /\ \E result \in CatalogResults(book_fetches[k]) :
        /\ fetch_result' = result
        /\ IF result.tag = "ok"
           THEN /\ sweep_books' = result.books
                /\ UNCHANGED is_private_profile
           ELSE /\ is_private_profile' = TRUE
                /\ UNCHANGED sweep_books
    /\ book_fetches' = [j \in 1..(Len(book_fetches) - 1) |->
                            IF j < k THEN book_fetches[j] ELSE book_fetches[j + 1]]
    /\ UNCHANGED <<user_id, selected_libraries, lending, sweep_pc, book_iter, in_flight,
                   libby_progress, available_count, holdable_count, not_owned_count,
                   availability, cat_vars, probe_vars, page_vars, step_vars>>

\* The call of task k returns. Ok sets the books signal; Err sets the banner
\* signal to whether the text of the error contains "Private profile".
FetchBooksReturns(k) ==
    /\ k \in 1..Len(book_fetches)
    /\ \E result \in CatalogResults(book_fetches[k]) :
        /\ fetch_result' = result
        /\ IF result.tag = "ok"
           THEN /\ sweep_books' = result.books
                /\ UNCHANGED is_private_profile
           ELSE /\ is_private_profile' = Contains(ErrorToString(result.msg), PrivateProfile)
                /\ UNCHANGED sweep_books
    /\ book_fetches' = [j \in 1..(Len(book_fetches) - 1) |->
                            IF j < k THEN book_fetches[j] ELSE book_fetches[j + 1]]
    /\ UNCHANGED <<user_id, selected_libraries, lending, sweep_pc, book_iter, in_flight,
                   libby_progress, available_count, holdable_count, not_owned_count,
                   availability, cat_vars, probe_vars, page_vars, step_vars>>

BannerNext ==
    \/ \E u \in 0..MaxUsers : InputUserId(u)
    \/ \E k \in 1..Len(book_fetches) : FetchBooksReturns(k)

\* ------------------------------------------------------------------ properties
\* The number of verdicts of the availability list that carry the title and
\* author of `book`.
VerdictsFor(book) ==
    Cardinality({ i \in 1..Len(availability) :
                    /\ availability[i].title = book.title
                    /\ availability[i].author = book.author })

\* Whether the probe of book b of the sweep ends in an error.
ProbeFails(b) ==
    GetLibbyAvailability(sweep_books[b], selected_libraries, lending[b]).tag = "err"

\* C1: during a probe sweep the number of per-book probes started and not yet
\* completed never exceeds the concurrency limit of 5, whatever the number of
\* books and the order of completion.
InFlightBounded == Cardinality(in_flight) <= concurrency_limit

\* The window is full again after a completion has started the queued book.
InFlightBoundedWitness ==
    /\ sweep_pc = "running"
    /\ libby_progress >= 1
    /\ Len(sweep_books) > concurrency_limit
    /\ Cardinality(in_flight) = concurrency_limit

\* C2: a probe sweep over M books that has run to completion has produced
\* exactly M outcomes, one per book: progress is M, and every book has either
\* exactly one verdict in the availability list or, its probe having returned
\* an error, none.
SweepProducesOneOutcomePerBook ==
    sweep_pc = "done" =>
        /\ libby_progress = Len(sweep_books)
        /\ \A b \in 1..Len(sweep_books) :
              VerdictsFor(sweep_books[b]) = (IF ProbeFails(b) THEN 0 ELSE 1)

\* A completed sweep of more books than the window holds, with a verdict, an
\* error, and two verdicts that arrived against the order of the book list.
SweepProducesOneOutcomePerBookWitness ==
    /\ sweep_pc = "done"
    /\ Len(sweep_books) > concurrency_limit
    /\ \E b \in 1..Len(sweep_books) : ProbeFails(b)
    /\ \E i, j \in 1..Len(availability) :
          /\ i < j
          /\ availability[i].title = sweep_books[Len(sweep_books)].title
          /\ availability[j].title = sweep_books[1].title

\* C3: for a non-empty list of per-library results the returned verdict counts
\* as available iff some result is available, as holdable iff no result is
\* available and some result is holdable, and as neither iff every result has
\* both flags false.
VerdictFollowsPriority ==
    probe_result.tag = "ok" =>
        LET lbs == libby_library_books
            anyAvailable == \E i \in 1..Len(lbs) : lbs[i].is_available
            anyHoldable == \E i \in 1..Len(lbs) : lbs[i].is_holdable
            class == Classify(probe_result.verdict)
        IN /\ lbs # << >>
           /\ probe_result.verdict.is_available <=> anyAvailable
           /\ class = "available" <=> anyAvailable
           /\ class = "holdable" <=> (~anyAvailable /\ anyHoldable)
           /\ class = "not_owned" <=>
                \A i \in 1..Len(lbs) : ~lbs[i].is_available /\ ~lbs[i].is_holdable

\* A verdict over two libraries, the first holdable and not available, the
\* second available.
VerdictFollowsPriorityWitness ==
    /\ probe_result.tag = "ok"
    /\ Len(libby_library_books) = 2
    /\ ~libby_library_books[1].is_available
    /\ libby_library_books[1].is_holdable
    /\ libby_library_books[2].is_available
    /\ Classify(probe_result.verdict) = "available"

\* C4: a probe called with an empty library list does not fail with an
\* out-of-bounds access: it returns a (no-libraries) verdict.
EmptyLibrarySetHandled ==
    (probe_pc = "returned" /\ probe_libs = << >>) => probe_result.tag = "ok"

\* C5: when the first fetched page carries the private-profile marker, the
\* call returns the private-profile error, no page task is spawned and the
\* first fetch stays the only request.
FirstPageFetched ==
    cat_pc \notin {"off", "first_fetch"} /\ cat_result # Err("request failed")

PrivateProfileFailsFast ==
    (FirstPageFetched /\ 1 \in shelf.marker) =>
        /\ cat_pc = "returned"
        /\ cat_result = Err("Private profile")
        /\ \A p \in 1..MaxPages : tasks[p].pc = "unspawned"
        /\ requests = [p \in 1..MaxPages |-> IF p = 1 THEN 1 ELSE 0]

\* The private-profile error returned for a shelf of several pages with rows.
PrivateProfileFailsFastWitness ==
    /\ cat_result = Err("Private profile")
    /\ shelf.npages >= 2
    /\ \E p \in 1..shelf.npages : shelf.rows[p] # << >>

RECURSIVE RowCount(_)
\* The number of rows on pages 1..n of the shelf.
RowCount(n) == IF n = 0 THEN 0 ELSE Len(shelf.rows[n]) + RowCount(n - 1)

AllRowsWellFormed ==
    \A p \in 1..shelf.npages : \A i \in 1..Len(shelf.rows[p]) : WellFormed(shelf.rows[p][i])

AllPagesFetched == \A p \in 1..shelf.npages : tasks[p].got_page

\* C6: for a shelf whose pages all fetch and hold only well-formed rows, the
\* number of books returned is the sum of the pages' row counts, in every
\* interleaving of the page tasks.
BookCountIsRowSum ==
    (cat_result.tag = "ok" /\ AllRowsWellFormed /\ AllPagesFetched) =>
        Len(cat_result.books) = RowCount(shelf.npages)

\* Two pages of two rows each returned, the first book pushed by page 2.
BookCountIsRowSumWitness ==
    /\ cat_result.tag = "ok"
    /\ AllRowsWellFormed /\ AllPagesFetched
    /\ shelf.npages = 2
    /\ RowCount(shelf.npages) = 4
    /\ cat_result.books[1].cover[2] = 2

\* Position of a returned book on the shelf: its page, then its row.
Precedes(a, b) ==
    \/ a.cover[2] < b.cover[2]
    \/ a.cover[2] = b.cover[2] /\ a.cover[3] < b.cover[3]

\* C7: the returned list is in page-then-document order in every interleaving
\* of the page tasks.
ReturnedInPageOrder ==
    cat_result.tag = "ok" =>
        \A i, j \in 1..Len(cat_result.books) :
            i < j => Precedes(cat_result.books[i], cat_result.books[j])

\* C8: a row lacking its cover, title or author element is skipped: the call
\* still returns Ok with every well-formed row of the pages that were fetched.
MalformedRowSkipped ==
    (cat_pc = "returned" /\ FirstPageFetched /\ 1 \notin shelf.marker) =>
        /\ cat_result.tag = "ok"
        /\ \A p \in 1..shelf.npages : \A i \in 1..Len(shelf.rows[p]) :
              (tasks[p].got_page /\ WellFormed(shelf.rows[p][i])) =>
                  \E k \in 1..Len(cat_result.books) :
                      cat_result.books[k] = BookOf(shelf.rows[p][i])

\* C9: a failing request or a malformed response of one library does not
\* abort the probes of the other libraries: when the call returns, every
\* library of the list has been queried.
FailingLibraryDoesNotAbortOthers ==
    probe_pc = "returned" => Len(queried) = Len(probe_libs)

\* C10: once page 1 is fetched and not private, the call returns an error for
\* no other reason: a later page that fails contributes no book and the call
\* returns Ok.
ErrorOnlyFromFirstPage ==
    cat_result.tag = "err" => cat_result.msg \in {"request failed", "Private profile"}

\* C11: a verdict returned for a book probed against N libraries holds exactly
\* N per-library results, the i-th carrying the search URL of the i-th library
\* of the list; each result is either the explicit not-found result with both
\* flags false or one that carries the cover, title and author of an item
\* matching the book.
OneResultPerLibrary ==
    probe_result.tag = "ok" =>
        LET lbs == probe_result.verdict.library_books
        IN /\ Len(lbs) = Len(probe_libs)
           /\ \A i \in 1..Len(lbs) :
                /\ lbs[i].libby_search_url = LibbySearchUrl(probe_libs[i], probe_book)
                /\ \/ /\ lbs[i] = NotFoundBook(probe_book, probe_libs[i])
                      /\ ~lbs[i].is_available /\ ~lbs[i].is_holdable
                   \/ /\ lbs[i].cover = "overdrive.jpg"
                      /\ StartsWith(ToLowercase(probe_book.title), ToLowercase(lbs[i].title))
                      /\ ToLowercase(lbs[i].author) = ToLowercase(probe_book.author)

\* A verdict over two libraries, the book found at the second only.
OneResultPerLibraryWitness ==
    /\ probe_result.tag = "ok"
    /\ Len(probe_libs) = 2
    /\ probe_result.verdict.library_books[1] = NotFoundBook(probe_book, probe_libs[1])
    /\ probe_result.verdict.library_books[2].cover = "overdrive.jpg"

\* C12: during a probe sweep progress is incremented once for each per-book
\* probe that completes, with a verdict or with an error: at every moment
\* progress is the number of books started less the number still in flight.
ProgressCountsCompletedProbes ==
    libby_progress = (book_iter - 1) - Cardinality(in_flight)

\* A running sweep in which a probe has completed with a verdict and another
\* with an error.
ProgressCountsCompletedProbesWitness ==
    /\ sweep_pc = "running"
    /\ Len(availability) >= 1
    /\ libby_progress > Len(availability)
    /\ in_flight # {}

\* C13: when a new sweep is started while an earlier one has probes in flight,
\* the signals only reflect books of the new sweep after its reset: progress
\* never exceeds the number of books and no book has more than one verdict.
SignalsReflectNewSweepOnly ==
    /\ libby_progress <= Len(sweep_books)
    /\ \A b \in 1..Len(sweep_books) : VerdictsFor(sweep_books[b]) <= 1

\* C14: within one sweep every book is probed against the library set selected
\* when the sweep started: the probes in flight, those of the initial batch
\* and those started later, all hold the same library list.
SweepUsesOneLibrarySet ==
    \A h1, h2 \in in_flight : h1.libraries = h2.libraries

\* C15: an unexpected upstream shape (a lending-API body without an items
\* array, an item lacking a field, a shelf row lacking an element) becomes a
\* probe error or a skipped row and never a panic: no probe of a non-empty
\* library list and no page task ends in a panic.
NoPanicOnUnexpectedShape ==
    /\ probe_libs # << >> => probe_result.tag # "panic"
    /\ \A p \in 1..MaxPages : tasks[p].pc # "panicked"

\* BookTable's lookup `availability.iter().find(|v| v.title == book.title &&
\* v.author == book.author)`: the index of the first such verdict, 0 for None.
FindVerdict(book) ==
    LET hits == { i \in 1..Len(availability) :
                    /\ availability[i].title = book.title
                    /\ availability[i].author = book.author }
    IN IF hits = {} THEN 0 ELSE CHOOSE i \in hits : \A j \in hits : i <= j

\* C16: every verdict carries the cover, title and author of a catalog book
\* unchanged, and the lookup by (title, author) returns for every book whose
\* probe returned a verdict the verdict produced for that book (its cover, and
\* per library the flags the library reported for it), whatever the order of
\* arrival.
LookupReturnsVerdictOfBook ==
    /\ \A i \in 1..Len(availability) : \E b \in 1..Len(sweep_books) :
          /\ availability[i].cover = sweep_books[b].cover
          /\ availability[i].title = sweep_books[b].title
          /\ availability[i].author = sweep_books[b].author
    /\ \A b \in 1..Len(sweep_books) :
          LET i == FindVerdict(sweep_books[b])
              o == lending[b]
          IN /\ (sweep_pc = "done" /\ ~o.fails /\ selected_libraries # << >>) => i # 0
             /\ i # 0 =>
                  /\ availability[i].cover = sweep_books[b].cover
                  /\ Len(availability[i].library_books) = Len(selected_libraries)
                  /\ \A k \in 1..Len(selected_libraries) :
                        LET f == o.finds[selected_libraries[k].system_id]
                            lb == availability[i].library_books[k]
                        IN /\ lb.is_available = (f.found /\ f.isAvailable)
                           /\ lb.is_holdable = (f.found /\ f.isHoldable)

\* A completed sweep whose first verdict is that of the last book: the lookup
\* of the first book finds its verdict further down the list.
LookupReturnsVerdictOfBookWitness ==
    /\ sweep_pc = "done"
    /\ Len(sweep_books) > concurrency_limit
    /\ FindVerdict(sweep_books[Len(sweep_books)]) = 1
    /\ FindVerdict(sweep_books[1]) > 2

\* Whether the text of a node is white space only.
IsBlank(t) == Trim(t) = << >>

\* C17: the scraped title is the concatenation of the direct text nodes of the
\* anchor, spans excluded, with no leading or trailing white space; for an
\* anchor made of the text "A Darker Shade of Magic", annotation spans and
\* white-space text nodes the title is exactly "A Darker Shade of Magic".
ScrapedTitleIsTrimmedText ==
    scraped_title # << >> =>
        LET title == scraped_title[1]
            texts == SelectSeq(title_element, IsTextNode)
            named == { i \in 1..Len(texts) : ~IsBlank(texts[i].text) }
        IN /\ title = Trim(title)
           /\ (Cardinality(named) = 1 /\ \A i \in named : Trim(texts[i].text) = DarkerShade)
                => title = DarkerShade

\* C18: the items loop accepts an item exactly when the book title starts with
\* the item title (as the loop reads it: newlines removed, trimmed) and the
\* authors are equal, both compared in lower case; an item that the exact rule
\* accepts is accepted by the prefix rule as well.
PrefixRuleDecides ==
    match_result \in {"accepted", "passed_over"} =>
        LET item == match_item[1]
            book_title == ToLowercase(probe_book.title)
            item_title == ToLowercase(ItemTitle(item))
            prefix == \E n \in 0..Len(book_title) : SubSeq(book_title, 1, n) = item_title
            author == ToLowercase(item.firstCreatorSortName) = ToLowercase(probe_book.author)
        IN /\ match_result = "accepted" <=> (prefix /\ author)
           /\ MatchesExact(probe_book, item) => match_result = "accepted"

\* An item accepted whose title is a proper prefix of the book title in another
\* case, reported with surrounding blanks.
PrefixRuleDecidesWitness ==
    /\ match_result = "accepted"
    /\ match_item[1].title = <<" ", "D", "u", "\n">>
    /\ match_item[1].firstCreatorSortName # probe_book.author

\* C19: after a failed catalog fetch the private-profile banner is shown when
\* and only when the error of that fetch is the private-profile error; a
\* fetch that fails for a network reason leaves the banner off.
BannerIffPrivateProfileError ==
    fetch_result.tag = "err" =>
        (is_private_profile <=> fetch_result.msg = "Private profile")

\* The banner shown for a private profile while the books of an earlier fetch
\* are still in the table.
BannerIffPrivateProfileErrorWitness ==
    /\ fetch_result = Err("Private profile")
    /\ is_private_profile
    /\ sweep_books # << >>

\* C20: the search URL of a verdict is the URL of the first library in query
\* order whose result is available, if any is; otherwise that of the first
\* library whose result is holdable, if any is; otherwise that of the first
\* library queried.
ChosenUrlFollowsPriority ==
    probe_result.tag = "ok" =>
        LET lbs == libby_library_books
            available == { i \in 1..Len(lbs) : lbs[i].is_available }
            holdable == { i \in 1..Len(lbs) : lbs[i].is_holdable }
            chosen == IF available # {}
                      THEN CHOOSE i \in available : \A j \in available : i <= j
                      ELSE IF holdable # {}
                      THEN CHOOSE i \in holdable : \A j \in holdable : i <= j
                      ELSE 1
        IN probe_result.verdict.libby_search_url =
                LibbySearchUrl(probe_libs[chosen], probe_book)

\* A verdict over two libraries, both holdable and neither available: the URL
\* is that of the first.
ChosenUrlFollowsPriorityWitness ==
    /\ probe_result.tag = "ok"
    /\ Len(libby_library_books) = 2
    /\ \A i \in 1..2 : libby_library_books[i].is_holdable
                       /\ ~libby_library_books[i].is_available
    /\ probe_result.verdict.libby_search_url = LibbySearchUrl(probe_libs[1], probe_book)

\* The places of the items array holding an item that passes the match rule.
MatchingItems ==
    { k \in 1..Len(items) : items[k].shape = "ok" /\ Matches(probe_book, items[k].item) }

\* C21: the result of one (book, library) probe is built from the first item,
\* in the order of the items array, that passes the title and author rule: its
\* two flags and its cover are those of that item, and no item after it is read.
FirstMatchingItemWins ==
    (libby_library_books # << >> /\ MatchingItems # {}) =>
        LET first == CHOOSE k \in MatchingItems : \A j \in MatchingItems : k <= j
            result == libby_library_books[1]
        IN /\ Len(libby_library_books) = 1
           /\ result.is_available = items[first].item.isAvailable
           /\ result.is_holdable = items[first].item.isHoldable
           /\ result.cover = items[first].item.cover
           /\ item_idx + 1 = first

\* A result built from the second item of three, the third matching too with
\* other flags.
FirstMatchingItemWinsWitness ==
    /\ probe_result.tag = "ok"
    /\ MatchingItems = {2, 3}
    /\ items[2].item.isAvailable # items[3].item.isAvailable
    /\ libby_library_books[1].cover = <<"cover150Wide", 2>>

\* C22: when the items array is empty or holds no item passing the match rule,
\* exactly one result is pushed for the library: both flags false, empty
\* cover, the title and author of the book, the search URL of the library.
NoMatchPushesNotFound ==
    MatchingItems = {} =>
        /\ (probe_pc \in {"reduce", "returned"} /\ probe_result.tag # "panic") =>
                Len(libby_library_books) = 1
        /\ \A i \in 1..Len(libby_library_books) :
              /\ ~libby_library_books[i].is_available
              /\ ~libby_library_books[i].is_holdable
              /\ libby_library_books[i].cover = ""
              /\ libby_library_books[i].title = probe_book.title
              /\ libby_library_books[i].author = probe_book.author
              /\ libby_library_books[i].libby_search_url =
                    <<probe_libs[1].libby_base_url,
                      Encode(probe_book.title \o <<" ">> \o probe_book.author)>>
        /\ (probe_pc \in {"reduce", "returned"}
            /\ \A k \in 1..Len(items) : items[k].shape = "ok") =>
                probe_result.tag # "panic"

\* The not-found result pushed after two items, one of another title and one
\* of another author, both available.
NoMatchPushesNotFoundWitness ==
    /\ probe_result.tag = "ok"
    /\ Len(items) = 2
    /\ MatchingItems = {}
    /\ items[1].item.isAvailable /\ items[2].item.isAvailable
    /\ items[1].item.title # items[2].item.title
    /\ items[1].item.firstCreatorSortName # items[2].item.firstCreatorSortName
    /\ ~probe_result.verdict.library_books[1].is_available

\* The number of pushes page task p has made: one per row it has left behind.
Pushes(p) ==
    CASE tasks[p].pc = "finished" -> tasks[p].row
      [] tasks[p].pc \in {"row", "locked", "panicked"} -> tasks[p].row - 1
      [] OTHER -> 0

RECURSIVE PushesUpTo(_)
PushesUpTo(n) == IF n = 0 THEN 0 ELSE Pushes(n) + PushesUpTo(n - 1)

\* C23: every push to the shared book list is made by a page task holding the
\* lock of the list, at most one page task holds it at any time, and no push
\* is lost: the length of the list is the number of pushes the page tasks have
\* made, at every moment and so when all of them have finished.
PushesUnderLock ==
    /\ \A p \in 1..MaxPages : tasks[p].pc = "locked" <=> lock = p
    /\ Cardinality({ p \in 1..MaxPages : tasks[p].pc = "locked" }) <= 1
    /\ Len(books) = PushesUpTo(MaxPages)

\* The task of page 2 holds the lock for its second row while the task of
\* page 1, one book pushed, has its next row ready and waits.
PushesUnderLockWitness ==
    /\ lock = 2
    /\ tasks[2].row = 2
    /\ tasks[1].pc = "row"
    /\ tasks[1].row = 2
    /\ WellFormed(RowsOf(1)[2])
    /\ Len(books) = 2

\* C24: when get_goodreads_books returns, with Ok or with an error, every page
\* task it spawned has finished: none is still running or able to push.
TasksJoinedAtReturn ==
    cat_pc = "returned" =>
        \A p \in 1..MaxPages : tasks[p].pc \in {"unspawned", "finished", "panicked"}

\* C25: one aggregation requests every page of the shelf exactly once: page 1
\* by the synchronous first fetch, pages 2..=total by the page tasks.
EachPageRequestedOnce ==
    cat_result.tag = "ok" =>
        \A p \in 1..shelf.npages : requests[p] = 1

\* C26: a privacy marker on any page that is parsed, not only on the first
\* page fetched, makes the aggregation return the private-profile error.
MarkerOnAnyPageFails ==
    (cat_pc = "returned"
     /\ \E p \in 1..shelf.npages : p \in shelf.marker /\ tasks[p].got_page) =>
        cat_result = Err("Private profile")

\* C27: the page count of the aggregation is the greatest of the pagination
\* link texts that parse as an unsigned integer, the others being ignored, and
\* 1 when no link parses or there is none.
PageCountIsMaxLink ==
    (FirstPageFetched /\ 1 \notin shelf.marker) =>
        LET parsed == { ParseU32(shelf.links[i]) : i \in 1..Len(shelf.links) } \ {-1}
        IN /\ parsed = {} => last_page = 1
           /\ parsed # {} => /\ last_page \in parsed
                             /\ \A v \in parsed : v <= last_page

\* The count 10 read off the links "10", "next", "2".
PageCountIsMaxLinkWitness ==
    /\ FirstPageFetched
    /\ shelf.links = << <<"1", "0">>, NextLink, <<"2">> >>
    /\ last_page = 10

\* Whether the probe `h` of the window ends in an error.
HandleFails(h) ==
    GetLibbyAvailability(sweep_books[h.book], h.libraries, lending[h.book]).tag = "err"

\* C28: when the probe of a book completes with an error during a sweep, that
\* completion adds no verdict and leaves the three counters and the verdicts
\* of the other books as they are, and the sweep goes on: it starts the next
\* queued book if there is one and keeps running while probes are in flight.
ErrorCompletionIsContained ==
    [][ \A h \in in_flight :
          (h \notin in_flight' /\ HandleFails(h)) =>
              /\ availability' = availability
              /\ available_count' = available_count
              /\ holdable_count' = holdable_count
              /\ not_owned_count' = not_owned_count
              /\ book_iter <= Len(sweep_books) =>
                    /\ book_iter' = book_iter + 1
                    /\ \E g \in in_flight' \ in_flight : g.book = book_iter
              /\ in_flight' # {} => sweep_pc' = "running" ]_vars

\* The first completion of a sweep over more books than the window holds was
\* an error: no verdict, no count, and the queued book has been started.
ErrorCompletionIsContainedWitness ==
    /\ sweep_pc = "running"
    /\ libby_progress = 1
    /\ availability = << >>
    /\ available_count + holdable_count + not_owned_count = 0
    /\ book_iter = concurrency_limit + 2
    /\ Cardinality(in_flight) = concurrency_limit

\* C29: the scheduler keeps the window full: whenever it waits for a
\* completion while books not yet started remain, exactly concurrency_limit
\* (5) probes are in flight, and each completion starts exactly one of them.
WindowKeptFull ==
    /\ [](( sweep_pc = "running" /\ book_iter <= Len(sweep_books)) =>
                Cardinality(in_flight) = concurrency_limit)
    /\ [][ (libby_progress' = libby_progress + 1 /\ book_iter <= Len(sweep_books)) =>
                /\ book_iter' = book_iter + 1
                /\ in_flight' \ in_flight = {Handle(book_iter)}
                /\ Cardinality(in_flight \ in_flight') = 1 ]_vars

\* The scheduler waiting with a full window after its first completion, a
\* verdict, has started the book that was queued.
WindowKeptFullWitness ==
    /\ sweep_pc = "running"
    /\ libby_progress = 1
    /\ Len(availability) = 1
    /\ book_iter = concurrency_limit + 2
    /\ \E h \in in_flight : h.book = concurrency_limit + 1
    /\ Cardinality(in_flight) = concurrency_limit

\* The sweep is over: no probe in flight, no book left in the queue, and every
\* book counted in progress.
SweepTerminated ==
    /\ sweep_pc = "done"
    /\ in_flight = {}
    /\ book_iter > Len(sweep_books)
    /\ libby_progress = Len(sweep_books)

\* C30: if every per-book probe eventually completes, a sweep over M books
\* that has been started eventually terminates with an empty window, an empty
\* queue and progress equal to M; a sweep over no book terminates at once,
\* without ever starting a probe.
SweepTerminates ==
    /\ (sweep_pc = "spawned") ~> SweepTerminated
    /\ [](sweep_books = << >> =>
            /\ sweep_pc # "running"
            /\ in_flight = {}
            /\ book_iter = 1
            /\ libby_progress = 0)

\* A sweep over more books than the window holds has terminated, two of its
\* probes having returned a verdict, that of the last book first, the others
\* an error.
SweepTerminatesWitness ==
    /\ SweepTerminated
    /\ Len(sweep_books) > concurrency_limit
    /\ Len(availability) = 2
    /\ availability[1].title = sweep_books[Len(sweep_books)].title

\* The books of the probes in flight.
BooksInFlight == { h.book : h \in in_flight }

\* C31: in one sweep every book of the list is started exactly once and in
\* list order: the books started so far are the first book_iter - 1 of the
\* list, each in flight at most once and never again once its probe has
\* completed; every step starts the books that follow the last one started,
\* without a gap; and a finished sweep has started them all.
BooksStartedOnceInOrder ==
    /\ [](/\ BooksInFlight \subseteq 1..(book_iter - 1)
          /\ Cardinality(BooksInFlight) = Cardinality(in_flight)
          /\ \A b \in 1..Len(sweep_books) :
                /\ VerdictsFor(sweep_books[b]) <= 1
                /\ b \in BooksInFlight => VerdictsFor(sweep_books[b]) = 0
          /\ sweep_pc = "done" => book_iter = Len(sweep_books) + 1)
    /\ [][ /\ book_iter' >= book_iter
           /\ BooksInFlight' \ BooksInFlight = book_iter..(book_iter' - 1) ]_vars

\* The last book of a list longer than the window has been started while the
\* probe of the second book is still in flight and that of the first is over.
BooksStartedOnceInOrderWitness ==
    /\ sweep_pc = "running"
    /\ Len(sweep_books) > concurrency_limit
    /\ book_iter = Len(sweep_books) + 1
    /\ Len(sweep_books) \in BooksInFlight
    /\ 2 \in BooksInFlight
    /\ 1 \notin BooksInFlight

\* C32: at every point of one sweep over M books the three counters add up to
\* the number of verdicts in the availability list, which is at most progress,
\* which is at most M.
CountsAddUpToVerdicts ==
    /\ available_count + holdable_count + not_owned_count = Len(availability)
    /\ Len(availability) <= libby_progress
    /\ libby_progress <= Len(sweep_books)

\* A running sweep with a verdict of each class and an error behind it.
CountsAddUpToVerdictsWitness ==
    /\ sweep_pc = "running"
    /\ available_count >= 1
    /\ holdable_count >= 1
    /\ not_owned_count >= 1
    /\ libby_progress > Len(availability)

\* The cell BookTable shows for a book: the label of the verdict the lookup
\* finds, "..." without one.
TableLabel(book) ==
    LET i == FindVerdict(book)
    IN IF i = 0 THEN "..."
       ELSE IF availability[i].is_available THEN "AVAILABLE"
       ELSE IF availability[i].is_holdable THEN "HOLDABLE"
       ELSE "NOT OWNED"

\* The books of the table shown with label l.
Shown(l) == { b \in 1..Len(sweep_books) : TableLabel(sweep_books[b]) = l }

\* C33: every verdict is counted under exactly one of available, holdable and
\* not owned, available before holdable before not owned, and the counters
\* agree with the labels of the table: each counter is the number of books
\* shown with its label; a verdict with both flags true is counted and shown
\* as available only.
CountersAgreeWithLabels ==
    /\ available_count = Cardinality(Shown("AVAILABLE"))
    /\ holdable_count = Cardinality(Shown("HOLDABLE"))
    /\ not_owned_count = Cardinality(Shown("NOT OWNED"))
    /\ available_count + holdable_count + not_owned_count = Len(availability)
    /\ \A i \in 1..Len(availability) :
          (availability[i].is_available /\ availability[i].is_holdable) =>
              \E b \in Shown("AVAILABLE") : FindVerdict(sweep_books[b]) = i

\* A sweep of two books has ended: the first verdict has both flags true and
\* is the one counted as available, the second is holdable only and is the
\* one counted as holdable.
CountersAgreeWithLabelsWitness ==
    /\ sweep_pc = "done"
    /\ Len(availability) = 2
    /\ availability[1].is_available /\ availability[1].is_holdable
    /\ ~availability[2].is_available /\ availability[2].is_holdable
    /\ available_count = 1
    /\ holdable_count = 1

\* C34: the banner reflects the catalog fetch that completed last: when that
\* fetch returned Ok the banner state is false, also when an earlier fetch
\* had failed with the private-profile error.
BannerClearedBySuccess ==
    fetch_result.tag = "ok" => ~is_private_profile

\* C35: once every catalog fetch has returned, the books shown are those of
\* the user id entered last: when the list shown is the shelf of that id and
\* the fetch that completed last returned it, the answer of the one fetch still
\* under way, that of an earlier id, does not replace it.
LastUserIdWins ==
    [][ ( /\ Len(book_fetches) = 1
          /\ book_fetches' = << >>
          /\ book_fetches[1] # user_id
          /\ user_id # 0
          /\ fetch_result = Ok(UserBooks(user_id))
          /\ sweep_books = UserBooks(user_id) )
        => sweep_books' = sweep_books ]_vars

\* C36: the selected libraries are derived from the selected website ids: once
\* no library lookup is pending, every library of selected_libraries has its
\* website id in selected_library_website_ids and no website id appears twice
\* in selected_libraries, also when an id was removed while its lookup was
\* under way.
LibrariesDerivedFromIds ==
    lib_tasks = << >> =>
        /\ \A k \in 1..Len(selected_libraries) :
              HasId(selected_library_website_ids, selected_libraries[k].website_id)
        /\ \A j, k \in 1..Len(selected_libraries) :
              selected_libraries[j].website_id = selected_libraries[k].website_id => j = k


\* ------------------------------------------------------------------ specifications
\* The components at rest: no call in progress and no input chosen.
CatalogIdle ==
    /\ shelf = [npages |-> 0, rows |-> << >>, marker |-> {}, links |-> << >>]
    /\ cat_pc = "off"
    /\ last_page = 0
    /\ page_number = 0
    /\ awaiting = 0
    /\ tasks = [p \in 1..MaxPages |-> NoTask]
    /\ books = << >>
    /\ lock = 0
    /\ requests = [p \in 1..MaxPages |-> 0]
    /\ cat_result = Pending

ProbeIdle ==
    /\ probe_book = [cover |-> "", title |-> << >>, author |-> << >>]
    /\ probe_libs = << >>
    /\ probe_pc = "off"
    /\ lib_idx = 0
    /\ item_idx = 0
    /\ libby_library_books = << >>
    /\ queried = << >>
    /\ probe_result = ProbePending

SweepIdle ==
    /\ sweep_books = << >>
    /\ selected_libraries = << >>
    /\ lending = << >>
    /\ sweep_pc = "off"
    /\ book_iter = 1
    /\ in_flight = {}
    /\ libby_progress = 0
    /\ available_count = 0
    /\ holdable_count = 0
    /\ not_owned_count = 0
    /\ availability = << >>

PageIdle ==
    /\ selected_library_website_ids = << >>
    /\ lib_tasks = << >>
    /\ effect_tracks_libraries = FALSE
    /\ stale = << >>

BannerIdle ==
    /\ user_id = 0
    /\ book_fetches = << >>
    /\ fetch_result = Pending
    /\ is_private_profile = FALSE

StepIdle ==
    /\ title_element = << >>
    /\ scraped_title = << >>
    /\ match_item = << >>
    /\ match_result = "off"
    /\ items = << >>

OthersIdle == BannerIdle /\ StepIdle

CatalogSpecInit == CatalogInit /\ ProbeIdle /\ SweepIdle /\ PageIdle /\ OthersIdle

ProbeSpecInit == ProbeInit /\ CatalogIdle /\ SweepIdle /\ PageIdle /\ OthersIdle

SweepSpecInit == SweepInit /\ CatalogIdle /\ ProbeIdle /\ PageIdle /\ OthersIdle

CatalogSpec == CatalogSpecInit /\ [][CatalogNext]_vars

PaginationSpecInit == PaginationInit /\ ProbeIdle /\ SweepIdle /\ PageIdle /\ OthersIdle

PaginationSpec == PaginationSpecInit /\ [][PaginationNext]_vars

ProbeSpec == ProbeSpecInit /\ [][ProbeNext]_vars

SweepSpec == SweepSpecInit /\ [][SweepNext]_vars

LabelSpecInit == LabelInit /\ CatalogIdle /\ ProbeIdle /\ PageIdle /\ OthersIdle

LabelSpec == LabelSpecInit /\ [][SweepNext]_vars

FairSweepSpecInit == FairSweepInit /\ CatalogIdle /\ ProbeIdle /\ PageIdle /\ OthersIdle

\* The sweep under the scheduling of the page: the executor polls the spawned
\* fetch_concurrent, and every probe in flight eventually completes.
FairSweepSpec ==
    /\ FairSweepSpecInit
    /\ [][SweepNext]_vars
    /\ WF_vars(StartBatch)
    /\ WF_vars(\E h \in in_flight : ProbeComplete(h))

SelectionSpecInit == SelectionInit /\ CatalogIdle /\ ProbeIdle /\ OthersIdle

ResweepSpecInit == ResweepInit /\ CatalogIdle /\ ProbeIdle /\ OthersIdle

ScrapeSpecInit ==
    ScrapeInit /\ CatalogIdle /\ ProbeIdle /\ SweepIdle /\ PageIdle /\ BannerIdle

CompareSpecInit == CompareInit /\ CatalogIdle /\ SweepIdle /\ PageIdle /\ BannerIdle

ScanSpecInit == ScanInit /\ CatalogIdle /\ SweepIdle /\ PageIdle /\ BannerIdle

BannerSpecInit ==
    BannerInit /\ CatalogIdle /\ ProbeIdle /\ SweepIdle /\ PageIdle /\ StepIdle

BannerSpec == BannerSpecInit /\ [][BannerNext]_vars

ScrapeSpec == ScrapeSpecInit /\ [][ScrapeNext]_vars

CompareSpec == CompareSpecInit /\ [][CompareNext]_vars

ScanSpec == ScanSpecInit /\ [][ScanNext]_vars

SelectionSpec == SelectionSpecInit /\ [][SelectionNext]_vars

ResweepSpec == ResweepSpecInit /\ [][ResweepNext]_vars

\* The three server-side and sweep components together.
Init == CatalogSpecInit \/ ProbeSpecInit \/ SweepSpecInit

Next == CatalogNext \/ ProbeNext \/ SweepNext

Spec == Init /\ [][Next]_vars

====
